---- MODULE Spec2Model ----
(***************************************************************************)
(* netscout-core, dns.rs: the DNS message codec (build_query, parse_name,  *)
(* read_u16, read_u32, parse_rdata) and the single-shot UDP orchestrator   *)
(* query; scan.rs: parse_subnet, probe_host and the LAN scan; port.rs: the *)
(* port scan; netscout-cli, main.rs: the dns command.                      *)
(*                                                                         *)
(* Conventions.  A byte buffer is a sequence of numbers 0..255; the code's *)
(* offsets are 0-based, so byte i of the code is buf[i+1] here (At).  A    *)
(* String is the sequence of its Unicode code points.  usize arithmetic    *)
(* never comes near 2^64 on buffers of these sizes, so it is plain         *)
(* integer arithmetic; the one narrowing cast of the code (label.len() as  *)
(* u8) keeps its width (% 256).                                            *)
(***************************************************************************)
EXTENDS Integers, Sequences, FiniteSets, TLC

VARIABLES
    \* ---- one call of query (dns.rs 263-360)
    pc,        \* where the call stands
    config,    \* the DnsConfig it was given
    packet,    \* the query message build_query returned
    io,        \* the socket calls made so far, in order, with their outcome
    resp,      \* the datagram received (resp_buf[..len])
    hdr,       \* flags, rcode, ancount, qdcount read from the header
    offset,    \* the decoding cursor
    qi,        \* questions skipped so far (the for _ in 0..qdcount counter)
    ai,        \* answer-loop iterations started so far (0..ancount)
    records,   \* the Vec<DnsRecord> under construction
    trace,     \* history: per record, where its answer lay in the datagram
    outcome,   \* what the call returned (or how it ended)
    \* ---- parse_name run one loop iteration at a time (dns.rs 115-152)
    nmode,     \* "domain", "ready", "loop", "octet", "returned" ("off": not used)
    ndom,      \* the domain string given to build_query
    nbuf,      \* the buffer given to parse_name
    noff,      \* the offset given to parse_name
    pn,        \* parse_name's locals: pos, labels, jumped, jump_back, done
    nhist,     \* history: first pointer met, its target, the labels before it
    nres,      \* what parse_name returned: name and the caller's offset
    \* ---- one call of parse_rdata (dns.rs 191-253)
    rin,       \* its arguments
    rout,      \* how it ended: value and offset, or the panic
    \* ---- the CLI's dns command (main.rs 177-191)
    cli,       \* its arguments, where it stands, and what it returned
    \* ---- two calls of query running side by side (dns.rs 263-360)
    calls,     \* per call: where it stands, its config, socket, datagram, outcome
    udp,       \* the host's UDP ports: owner, receive queue, and what arrived where
    \* ---- one call of parse_subnet (scan.rs 47-88)
    cidr,      \* its argument
    subnet,    \* what it returned
    \* ---- one call of probe_host (scan.rs 90-112)
    probe,     \* its arguments, loop position, open_ports, and what it returned
    \* ---- one call of port::scan or scan::scan (port.rs 168-218, scan.rs 115-160)
    scan,      \* the calling task: config, loop position, semaphore, result
    tasks      \* the spawned probe tasks, in spawn order

queryVars == <<pc, config, packet, io, resp, hdr, offset, qi, ai, records, trace, outcome>>
nameVars  == <<nmode, ndom, nbuf, noff, pn, nhist, nres>>
rdataVars == <<rin, rout>>
cliVars   == <<cli>>
twoVars   == <<calls, udp>>
subnetVars == <<cidr, subnet>>
probeVars == <<probe>>
scanVars  == <<scan, tasks>>
moreVars  == <<twoVars, subnetVars, probeVars, scanVars>>
vars      == <<queryVars, nameVars, rdataVars, cliVars, moreVars>>

---------------------------------------------------------------------------
(* Bytes, slices and strings *)

\* buf[i] of the code (0-based).
At(buf, i) == buf[i + 1]

\* &buf[a..b] of the code (0-based, half open).
Slice(buf, a, b) == SubSeq(buf, a + 1, b)

\* buf[..n]
Take(buf, n) == SubSeq(buf, 1, n)

\* n copies of x
Rep(x, n) == [i \in 1..n |-> x]

DOT   == 46
COLON == 58
SPACE == 32
REPLACEMENT == 65533

\* String::from_utf8_lossy(bytes).to_string(): an ASCII byte is its own code
\* point; a byte that starts no valid UTF-8 sequence becomes U+FFFD.  The
\* labels and character-strings decoded in this model hold no lead byte
\* 0xC2..0xF4 (their bytes are ASCII or 0xC0), so no multi-byte sequence is
\* ever valid and the replacement is per byte.
Utf8Lossy(bytes) == [i \in 1..Len(bytes) |-> IF bytes[i] < 128 THEN bytes[i] ELSE REPLACEMENT]

\* str.as_bytes() of a string of ASCII code points
AsBytes(s) == s

\* parts.join(sep)
RECURSIVE Join(_, _)
Join(parts, sep) ==
    IF Len(parts) = 0 THEN <<>>
    ELSE IF Len(parts) = 1 THEN parts[1]
    ELSE parts[1] \o <<sep>> \o Join(Tail(parts), sep)

\* s.split(c): the pieces between the occurrences of c, in order; always at
\* least one piece, an empty string being one empty piece.  SepAt(s, c, k) is
\* the position of the k-th occurrence of c.
SepAt(s, c, k) ==
    CHOOSE i \in 1..Len(s) :
        s[i] = c /\ Cardinality({j \in 1..(i - 1) : s[j] = c}) = k - 1

Split(s, c) ==
    LET n == Cardinality({i \in 1..Len(s) : s[i] = c}) + 1
    IN  [k \in 1..n |->
            SubSeq(s,
                   IF k = 1 THEN 1 ELSE SepAt(s, c, k - 1) + 1,
                   IF k = n THEN Len(s) ELSE SepAt(s, c, k) - 1)]

\* format!("{}", n) of an unsigned integer
RECURSIVE Dec(_)
Dec(n) == IF n < 10 THEN <<48 + n>> ELSE Dec(n \div 10) \o <<48 + (n % 10)>>

HexDigit(d) == IF d < 10 THEN 48 + d ELSE 87 + d

\* HexLow with a fault: always four digits
HexLowFourDigits(n) ==
    <<HexDigit(n \div 4096), HexDigit((n \div 256) % 16), HexDigit((n \div 16) % 16),
      HexDigit(n % 16)>>

\* format!("{:x}", n)
RECURSIVE HexLow(_)
HexLow(n) == IF n < 16 THEN <<HexDigit(n)>> ELSE HexLow(n \div 16) \o <<HexDigit(n % 16)>>

\* Hex2 with a fault: capital letters
Hex2Capitals(b) ==
    <<(IF (b \div 16) < 10 THEN 48 ELSE 55) + (b \div 16),
      (IF (b % 16) < 10 THEN 48 ELSE 55) + (b % 16)>>

\* format!("{b:02x}") of a byte
Hex2(b) == <<HexDigit(b \div 16), HexDigit(b % 16)>>

\* hex::encode(data)
RECURSIVE HexEncode(_)
HexEncode(data) == IF Len(data) = 0 THEN <<>> ELSE Hex2(data[1]) \o HexEncode(Tail(data))

---------------------------------------------------------------------------
(* RecordType *)

RecordTypes == {"A", "AAAA", "MX", "TXT", "CNAME", "NS", "SOA", "PTR"}

\* ToQtype with a fault: NS is given the code of CNAME
ToQtypeNsAsCname(rt) ==
    CASE rt = "A" -> 1
      [] rt = "AAAA" -> 28
      [] rt = "MX" -> 15
      [] rt = "TXT" -> 16
      [] rt = "CNAME" -> 5
      [] rt = "NS" -> 5
      [] rt = "SOA" -> 6
      [] rt = "PTR" -> 12

\* RecordType::to_qtype
ToQtype(rt) ==
    CASE rt = "A" -> 1
      [] rt = "AAAA" -> 28
      [] rt = "MX" -> 15
      [] rt = "TXT" -> 16
      [] rt = "CNAME" -> 5
      [] rt = "NS" -> 2
      [] rt = "SOA" -> 6
      [] rt = "PTR" -> 12

\* the text of a record kind (Display, which writes the variant's name)
TypeText(rt) ==
    CASE rt = "A" -> <<65>>
      [] rt = "AAAA" -> <<65, 65, 65, 65>>
      [] rt = "MX" -> <<77, 88>>
      [] rt = "TXT" -> <<84, 88, 84>>
      [] rt = "CNAME" -> <<67, 78, 65, 77, 69>>
      [] rt = "NS" -> <<78, 83>>
      [] rt = "SOA" -> <<83, 79, 65>>
      [] rt = "PTR" -> <<80, 84, 82>>

LONG_S  == 383
SHARP_S == 223

\* char::to_uppercase: an ASCII lowercase letter gives its capital; U+017F
\* (long s) gives 'S'; U+00DF (sharp s) gives the two letters "SS"; every
\* other code point of this model (capitals, digits, space) gives itself.
UpperOf(c) ==
    IF c >= 97 /\ c <= 122 THEN <<c - 32>>
    ELSE IF c = LONG_S THEN <<83>>
    ELSE IF c = SHARP_S THEN <<83, 83>>
    ELSE <<c>>

\* str::to_uppercase
RECURSIVE ToUppercase(_)
ToUppercase(s) == IF Len(s) = 0 THEN <<>> ELSE UpperOf(s[1]) \o ToUppercase(Tail(s))

\* FromStrLoose with a fault: the text is matched as it is written
FromStrLooseAsWritten(s) ==
    CASE s = <<65>> -> "A"
      [] s = <<65, 65, 65, 65>> -> "AAAA"
      [] s = <<77, 88>> -> "MX"
      [] s = <<84, 88, 84>> -> "TXT"
      [] s = <<67, 78, 65, 77, 69>> -> "CNAME"
      [] s = <<78, 83>> -> "NS"
      [] s = <<83, 79, 65>> -> "SOA"
      [] s = <<80, 84, 82>> -> "PTR"
      [] OTHER -> "None"

\* RecordType::from_str_loose: Some(kind) as the kind, None as "None"
FromStrLoose(s) ==
    LET u == ToUppercase(s)
    IN  CASE u = <<65>> -> "A"
          [] u = <<65, 65, 65, 65>> -> "AAAA"
          [] u = <<77, 88>> -> "MX"
          [] u = <<84, 88, 84>> -> "TXT"
          [] u = <<67, 78, 65, 77, 69>> -> "CNAME"
          [] u = <<78, 83>> -> "NS"
          [] u = <<83, 79, 65>> -> "SOA"
          [] u = <<80, 84, 82>> -> "PTR"
          [] OTHER -> "None"

---------------------------------------------------------------------------
(* build_query *)

\* qtype.to_be_bytes()
U16Be(n) == <<(n \div 256) % 256, n % 256>>

QueryHeaderBytes == <<171, 205, 1, 0, 0, 1, 0, 0, 0, 0, 0, 0>>

\* buf.push(label.len() as u8); buf.extend_from_slice(label.as_bytes())
RECURSIVE EncodeLabels(_)
EncodeLabels(labels) ==
    IF Len(labels) = 0 THEN <<>>
    ELSE <<Len(labels[1]) % 256>> \o AsBytes(labels[1]) \o EncodeLabels(Tail(labels))

BuildQuery(domain, qtype) ==
    QueryHeaderBytes \o EncodeLabels(Split(domain, DOT)) \o <<0>> \o U16Be(qtype) \o <<0, 1>>

---------------------------------------------------------------------------
(* parse_name *)

\* len & 0xC0 == 0xC0, for a byte
IsPointer(len) == len >= 192

\* ((len & 0x3F) << 8) | buf.get(pos + 1).copied().unwrap_or(0) as usize
PointerTarget(buf, pos) ==
    (At(buf, pos) % 64) * 256 + (IF pos + 1 < Len(buf) THEN At(buf, pos + 1) ELSE 0)

\* the locals of parse_name on entry
ParseNameEntry(off) ==
    [pos |-> off, labels |-> <<>>, jumped |-> FALSE, jump_back |-> 0, done |-> FALSE]

\* ParseNameIter with a fault: it forgets the labels read before a pointer
ParseNameIterDropsPrefix(buf, st) ==
    IF st.pos >= Len(buf) THEN [st EXCEPT !.done = TRUE]
    ELSE LET len == At(buf, st.pos) IN
         IF len = 0 THEN [st EXCEPT !.pos = st.pos + 1, !.done = TRUE]
         ELSE IF IsPointer(len)
              THEN [st EXCEPT !.jump_back = IF ~st.jumped THEN st.pos + 2 ELSE @,
                              !.pos = PointerTarget(buf, st.pos),
                              !.labels = <<>>,
                              !.jumped = TRUE]
              ELSE LET p == st.pos + 1 IN
                   [st EXCEPT !.labels = IF p + len <= Len(buf)
                                         THEN Append(@, Utf8Lossy(Slice(buf, p, p + len)))
                                         ELSE @,
                              !.pos = p + len]

\* ParseNameIter with a fault: it moves the resume-after cursor at every pointer
ParseNameIterMovesJumpBack(buf, st) ==
    IF st.pos >= Len(buf) THEN [st EXCEPT !.done = TRUE]
    ELSE LET len == At(buf, st.pos) IN
         IF len = 0 THEN [st EXCEPT !.pos = st.pos + 1, !.done = TRUE]
         ELSE IF IsPointer(len)
              THEN [st EXCEPT !.jump_back = st.pos + 2,
                              !.pos = PointerTarget(buf, st.pos),
                              !.jumped = TRUE]
              ELSE LET p == st.pos + 1 IN
                   [st EXCEPT !.labels = IF p + len <= Len(buf)
                                         THEN Append(@, Utf8Lossy(Slice(buf, p, p + len)))
                                         ELSE @,
                              !.pos = p + len]

\* one iteration of parse_name's loop; done is set where the code breaks
ParseNameIter(buf, st) ==
    IF st.pos >= Len(buf) THEN [st EXCEPT !.done = TRUE]
    ELSE LET len == At(buf, st.pos) IN
         IF len = 0 THEN [st EXCEPT !.pos = st.pos + 1, !.done = TRUE]
         ELSE IF IsPointer(len)
              THEN [st EXCEPT !.jump_back = IF ~st.jumped THEN st.pos + 2 ELSE @,
                              !.pos = PointerTarget(buf, st.pos),
                              !.jumped = TRUE]
              ELSE LET p == st.pos + 1 IN
                   [st EXCEPT !.labels = IF p + len <= Len(buf)
                                         THEN Append(@, Utf8Lossy(Slice(buf, p, p + len)))
                                         ELSE @,
                              !.pos = p + len]

\* ParseNameExit with a fault: the caller's offset is where reading stopped,
\* also after a pointer was followed
ParseNameExitAtPos(st) ==
    [name   |-> Join(st.labels, DOT),
     labels |-> st.labels,
     offset |-> st.pos]

\* what parse_name hands back after the loop: the name, and the caller's offset
ParseNameExit(st) ==
    [name   |-> Join(st.labels, DOT),
     labels |-> st.labels,
     offset |-> IF st.jumped THEN st.jump_back ELSE st.pos]

\* The loop run to its end.  Which branch an iteration takes depends on buf and
\* pos alone, so the loop never exits once it is at the head of an iteration
\* with a pos it has had before: that is reported as hang, the call never
\* returning.
RECURSIVE ParseNameLoop(_, _, _)
ParseNameLoop(buf, st, seen) ==
    IF st.done THEN [hang |-> FALSE, st |-> st]
    ELSE IF st.pos \in seen THEN [hang |-> TRUE, st |-> st]
    ELSE ParseNameLoop(buf, ParseNameIter(buf, st), seen \cup {st.pos})

\* parse_name(buf, &mut offset)
ParseName(buf, off) ==
    LET r == ParseNameLoop(buf, ParseNameEntry(off), {})
        x == ParseNameExit(r.st)
    IN  [hang |-> r.hang, name |-> x.name, labels |-> x.labels, offset |-> x.offset]

---------------------------------------------------------------------------
(* read_u16, read_u32, rcode_str *)

\* ReadU16 with a fault: the low byte first
ReadU16LowByteFirst(buf, off) ==
    IF off + 2 <= Len(buf) THEN At(buf, off + 1) * 256 + At(buf, off) ELSE 0

\* read_u16: the big-endian 16-bit value at off, 0 when it is not in the buffer
ReadU16(buf, off) ==
    IF off + 2 <= Len(buf) THEN At(buf, off) * 256 + At(buf, off + 1) ELSE 0

\* A u32 is kept as its two 16-bit halves, hi * 65536 + lo, so that every
\* value up to 2^32 - 1 has its own representation.
U32(hi, lo) == [hi |-> hi, lo |-> lo]

\* ReadU32 with a fault: the low half first
ReadU32LowHalfFirst(buf, off) ==
    IF off + 4 <= Len(buf)
    THEN U32(At(buf, off + 2) * 256 + At(buf, off + 3), At(buf, off) * 256 + At(buf, off + 1))
    ELSE U32(0, 0)

\* read_u32: the big-endian 32-bit value at off, 0 when it is not in the buffer
ReadU32(buf, off) ==
    IF off + 4 <= Len(buf)
    THEN U32(At(buf, off) * 256 + At(buf, off + 1), At(buf, off + 2) * 256 + At(buf, off + 3))
    ELSE U32(0, 0)

\* format!("{}", v) of a u32: v divided by ten, long division on the halves
DivTen(v) ==
    LET t == (v.hi % 10) * 65536 + v.lo
    IN  [q |-> U32(v.hi \div 10, t \div 10), r |-> t % 10]

RECURSIVE DecU32(_)
DecU32(v) ==
    IF v.hi = 0 /\ v.lo < 10 THEN <<48 + v.lo>>
    ELSE DecU32(DivTen(v).q) \o <<48 + DivTen(v).r>>

RcodeStr(rcode) ==
    CASE rcode = 0 -> "NOERROR"
      [] rcode = 1 -> "FORMERR"
      [] rcode = 2 -> "SERVFAIL"
      [] rcode = 3 -> "NXDOMAIN"
      [] rcode = 4 -> "NOTIMP"
      [] rcode = 5 -> "REFUSED"
      [] OTHER -> "UNKNOWN"

---------------------------------------------------------------------------
(* parse_rdata *)

\* How a decoding call ends: it returns, it panics on an index past the end
\* of the buffer (Rust checks every buf[i] and every &buf[a..b]), or it
\* never returns (parse_name in a pointer cycle).
Returned(value, off) == [kind |-> "ok", value |-> value, offset |-> off]
Panicked == [kind |-> "panic", value |-> <<>>, offset |-> 0]
Hung     == [kind |-> "hang", value |-> <<>>, offset |-> 0]

\* RdataReturn with a fault: it leaves the cursor where the type's decoder stopped
RdataReturnAtDecoderPos(value, end, pos) == Returned(value, pos)

\* *offset = end; result  -- pos is where the type-specific decoder stopped reading
RdataReturn(value, end, pos) == Returned(value, end)

\* TxtLoop with a fault: a character-string that overruns the RDATA end is
\* kept, cut at the end
RECURSIVE TxtLoopKeepsCut(_, _, _, _)
TxtLoopKeepsCut(buf, pos, end, texts) ==
    IF ~(pos < end) THEN [panic |-> FALSE, texts |-> texts, pos |-> pos]
    ELSE IF pos >= Len(buf) THEN [panic |-> TRUE, texts |-> texts, pos |-> pos]
    ELSE LET tlen == At(buf, pos)
             p == pos + 1
         IN  IF p + tlen <= end
             THEN IF p + tlen > Len(buf)
                  THEN [panic |-> TRUE, texts |-> texts, pos |-> p]
                  ELSE TxtLoopKeepsCut(buf, p + tlen, end,
                                       Append(texts, Utf8Lossy(Slice(buf, p, p + tlen))))
             ELSE IF end > Len(buf)
                  THEN [panic |-> TRUE, texts |-> texts, pos |-> p]
                  ELSE TxtLoopKeepsCut(buf, p + tlen, end,
                                       Append(texts, Utf8Lossy(Slice(buf, p, end))))

\* the TXT arm's while loop: texts and the final pos, or the panic
RECURSIVE TxtLoop(_, _, _, _)
TxtLoop(buf, pos, end, texts) ==
    IF ~(pos < end) THEN [panic |-> FALSE, texts |-> texts, pos |-> pos]
    ELSE IF pos >= Len(buf) THEN [panic |-> TRUE, texts |-> texts, pos |-> pos]
    ELSE LET tlen == At(buf, pos)
             p == pos + 1
         IN  IF p + tlen <= end
             THEN IF p + tlen > Len(buf)
                  THEN [panic |-> TRUE, texts |-> texts, pos |-> p]
                  ELSE TxtLoop(buf, p + tlen, end, Append(texts, Utf8Lossy(Slice(buf, p, p + tlen))))
             ELSE TxtLoop(buf, p + tlen, end, texts)

\* the AAAA arm: format!("{:x}", read_u16(buf, start + i * 2)) for i in 0..8
AaaaParts(buf, start) == [i \in 1..8 |-> HexLow(ReadU16(buf, start + (i - 1) * 2))]

ParseRdata(buf, off, rdlength, rtype) ==
    LET start == off
        end == start + rdlength
    IN  IF rtype = 1 /\ rdlength = 4
        THEN IF start + 3 >= Len(buf) THEN Panicked
             ELSE RdataReturn(Dec(At(buf, start)) \o <<DOT>> \o Dec(At(buf, start + 1)) \o <<DOT>>
                              \o Dec(At(buf, start + 2)) \o <<DOT>> \o Dec(At(buf, start + 3)),
                              end, start + 4)
        ELSE IF rtype = 28 /\ rdlength = 16
        THEN RdataReturn(Join(AaaaParts(buf, start), COLON), end, start + 16)
        ELSE IF rtype \in {5, 2, 12}
        THEN LET n == ParseName(buf, start)
             IN  IF n.hang THEN Hung ELSE RdataReturn(n.name, end, n.offset)
        ELSE IF rtype = 15
        THEN LET preference == ReadU16(buf, start)
                 n == ParseName(buf, start + 2)
             IN  IF n.hang THEN Hung
                 ELSE RdataReturn(Dec(preference) \o <<SPACE>> \o n.name, end, n.offset)
        ELSE IF rtype = 16
        THEN LET t == TxtLoop(buf, start, end, <<>>)
             IN  IF t.panic THEN Panicked ELSE RdataReturn(Join(t.texts, SPACE), end, t.pos)
        ELSE IF rtype = 6
        THEN LET m == ParseName(buf, start)
                 r == ParseName(buf, m.offset)
             IN  IF m.hang \/ r.hang THEN Hung
                 ELSE RdataReturn(m.name \o <<SPACE>> \o r.name \o <<SPACE>> \o DecU32(ReadU32(buf, r.offset)),
                                  end, r.offset + 4)
        ELSE RdataReturn(HexEncode(IF end <= Len(buf) THEN Slice(buf, start, end) ELSE <<>>), end, end)

\* RtypeName with a fault: the names of TYPE 2 and TYPE 5 are exchanged
RtypeNameNsForCname(rtype) ==
    CASE rtype = 1 -> "A"
      [] rtype = 28 -> "AAAA"
      [] rtype = 5 -> "NS"
      [] rtype = 2 -> "CNAME"
      [] rtype = 15 -> "MX"
      [] rtype = 16 -> "TXT"
      [] rtype = 6 -> "SOA"
      [] rtype = 12 -> "PTR"
      [] OTHER -> "UNKNOWN"

\* the record_type label of an answer (rtype_name)
RtypeName(rtype) ==
    CASE rtype = 1 -> "A"
      [] rtype = 28 -> "AAAA"
      [] rtype = 5 -> "CNAME"
      [] rtype = 2 -> "NS"
      [] rtype = 15 -> "MX"
      [] rtype = 16 -> "TXT"
      [] rtype = 6 -> "SOA"
      [] rtype = 12 -> "PTR"
      [] OTHER -> "UNKNOWN"

---------------------------------------------------------------------------
(* query: one call, from its config to its return *)

\* Whether format!("{}:53", resolver) parses as a SocketAddr: an IPv4 literal
\* does; a host name does not (parse resolves nothing) and neither does an
\* unbracketed IPv6 literal followed by ":53".
ParsesAsSocketAddr(resolver) ==
    CASE resolver = "8.8.8.8" -> TRUE
      [] resolver = "dns.google" -> FALSE
      [] resolver = "::1" -> FALSE
      [] OTHER -> FALSE

Err(msg) == [kind |-> "Err", msg |-> msg]
NoOutcome == [kind |-> "none"]

\* the call is over: it returned, it panicked, or it spins in parse_name
Ended == {"done", "panic", "hang"}

NoHdr == [flags |-> 0, rcode |-> 0, truncated |-> FALSE, recursion_available |-> FALSE,
          authenticated_data |-> FALSE, ancount |-> 0, qdcount |-> 0]

\* Bit with a fault: the mask is one bit too high
BitOneTooHigh(flags, k) == (flags \div (2 ^ (k + 1))) % 2 = 1

\* flags & mask != 0, for a mask of the single bit 2^k
Bit(flags, k) == (flags \div (2 ^ k)) % 2 = 1

\* PushRecord with a fault: it puts the newest record first
PushRecordFront(recs, rec) == <<rec>> \o recs

\* records.push(DnsRecord { .. })
PushRecord(recs, rec) == Append(recs, rec)

\* let qtype = ..; let packet = build_query(..); let resolver_addr = ..parse()..?
QueryStart ==
    /\ pc = "start"
    /\ packet' = BuildQuery(config.domain, ToQtype(config.record_type))
    /\ IF ParsesAsSocketAddr(config.resolver)
       THEN pc' = "bind" /\ outcome' = outcome
       ELSE pc' = "done" /\ outcome' = Err("Invalid resolver address")
    /\ UNCHANGED <<config, io, resp, hdr, offset, qi, ai, records, trace>>
    /\ UNCHANGED <<nameVars, rdataVars, cliVars, moreVars>>

\* UdpSocket::bind("0.0.0.0:0")..?
QueryBind ==
    /\ pc = "bind"
    /\ \E ok \in BOOLEAN :
         IF ok
         THEN io' = Append(io, "bind_ok") /\ pc' = "set_timeout" /\ outcome' = outcome
         ELSE io' = Append(io, "bind_err") /\ pc' = "done"
              /\ outcome' = Err("Failed to bind UDP socket")
    /\ UNCHANGED <<config, packet, resp, hdr, offset, qi, ai, records, trace>>
    /\ UNCHANGED <<nameVars, rdataVars, cliVars, moreVars>>

\* QuerySetTimeout with a fault: a failure to set the timeout is ignored
QuerySetTimeoutIgnoresError ==
    /\ pc = "set_timeout"
    /\ \E ok \in BOOLEAN :
         /\ io' = Append(io, IF ok THEN "set_timeout_ok" ELSE "set_timeout_err")
         /\ pc' = "send" /\ outcome' = outcome
    /\ UNCHANGED <<config, packet, resp, hdr, offset, qi, ai, records, trace>>
    /\ UNCHANGED <<nameVars, rdataVars, cliVars, moreVars>>

\* socket.set_read_timeout(Some(config.timeout))..?
QuerySetTimeout ==
    /\ pc = "set_timeout"
    /\ \E ok \in BOOLEAN :
         IF ok
         THEN io' = Append(io, "set_timeout_ok") /\ pc' = "send" /\ outcome' = outcome
         ELSE io' = Append(io, "set_timeout_err") /\ pc' = "done"
              /\ outcome' = Err("Failed to set timeout")
    /\ UNCHANGED <<config, packet, resp, hdr, offset, qi, ai, records, trace>>
    /\ UNCHANGED <<nameVars, rdataVars, cliVars, moreVars>>

\* socket.send_to(&packet, resolver_addr)..?
QuerySend ==
    /\ pc = "send"
    /\ \E ok \in BOOLEAN :
         IF ok
         THEN io' = Append(io, "send_ok") /\ pc' = "recv" /\ outcome' = outcome
         ELSE io' = Append(io, "send_err") /\ pc' = "done"
              /\ outcome' = Err("Failed to send query")
    /\ UNCHANGED <<config, packet, resp, hdr, offset, qi, ai, records, trace>>
    /\ UNCHANGED <<nameVars, rdataVars, cliVars, moreVars>>

---------------------------------------------------------------------------
(* The datagrams a resolver may answer with, within bounds *)

\* at most this many answer records in a datagram, and ANCOUNT at most this
MaxAnswers == 2

U32Be(n) == <<(n \div 16777216) % 256, (n \div 65536) % 256, (n \div 256) % 256, n % 256>>

RespHeader(flags, qd, an) == <<171, 205>> \o U16Be(flags) \o U16Be(qd) \o U16Be(an) \o <<0, 0, 0, 0>>

\* the question "a" IN A
QuestionBytes == <<1, 97, 0, 0, 1, 0, 1>>

AnswerBytes(name, rtype, ttl, rdlength, rdata) ==
    name \o U16Be(rtype) \o <<0, 1>> \o U32Be(ttl) \o U16Be(rdlength) \o rdata

\* An A record whose name is a pointer to offset 12 (the question's name, or,
\* in a datagram without question, the pointer itself), a TXT record, a CNAME
\* whose target is a pointer to offset 12, an MX record and a record of a
\* TYPE the decoder does not know.
AnswerSet ==
    { AnswerBytes(<<192, 12>>, 1, 300, 4, <<10, 0, 0, 1>>),
      AnswerBytes(<<0>>, 16, 60, 2, <<1, 97>>),
      AnswerBytes(<<0>>, 5, 61, 2, <<192, 12>>),
      AnswerBytes(<<0>>, 15, 62, 3, <<0, 5, 0>>),
      AnswerBytes(<<0>>, 99, 63, 1, <<7>>) }

RECURSIVE Flatten(_)
Flatten(ss) == IF Len(ss) = 0 THEN <<>> ELSE ss[1] \o Flatten(Tail(ss))

AnswerSections == UNION { [1..k -> AnswerSet] : k \in 0..MaxAnswers }

\* QR and RD and RA set, RCODE 0
RespFlags == {33152}

FullDatagrams ==
    { RespHeader(f, qd, an) \o (IF qd = 1 THEN QuestionBytes ELSE <<>>) \o Flatten(as) :
        f \in RespFlags, qd \in {0, 1}, an \in 0..MaxAnswers, as \in AnswerSections }

\* every datagram above, and every prefix of one (a response cut at any byte)
Datagrams == UNION { { Take(d, n) : n \in 0..Len(d) } : d \in FullDatagrams }

---------------------------------------------------------------------------

\* QueryRecv with a fault: it sends the query again after a receive timeout
QueryRecvRetries ==
    /\ pc = "recv"
    /\ \/ \E d \in Datagrams :
            io' = Append(io, "recv_ok") /\ resp' = d /\ pc' = "received" /\ outcome' = outcome
       \/ io' = Append(io, "recv_err") /\ resp' = resp /\ pc' = "done"
          /\ outcome' = Err("Failed to receive response")
       \/ io' = Append(io, "recv_timeout") /\ resp' = resp /\ pc' = "send" /\ outcome' = outcome
    /\ UNCHANGED <<config, packet, hdr, offset, qi, ai, records, trace>>
    /\ UNCHANGED <<nameVars, rdataVars, cliVars, moreVars>>

\* let (len, _) = socket.recv_from(&mut resp_buf)..?; let resp = &resp_buf[..len]
\* A datagram arrives, the receive fails, or the read timeout elapses.
QueryRecv ==
    /\ pc = "recv"
    /\ \/ \E d \in Datagrams :
            io' = Append(io, "recv_ok") /\ resp' = d /\ pc' = "received" /\ outcome' = outcome
       \/ io' = Append(io, "recv_err") /\ resp' = resp /\ pc' = "done"
          /\ outcome' = Err("Failed to receive response")
       \/ io' = Append(io, "recv_timeout") /\ resp' = resp /\ pc' = "done"
          /\ outcome' = Err("Failed to receive response")
    /\ UNCHANGED <<config, packet, hdr, offset, qi, ai, records, trace>>
    /\ UNCHANGED <<nameVars, rdataVars, cliVars, moreVars>>

\* the same receive, the datagram drawn from the set D
QueryRecvIn(D) ==
    /\ pc = "recv"
    /\ \/ \E d \in D :
            io' = Append(io, "recv_ok") /\ resp' = d /\ pc' = "received" /\ outcome' = outcome
       \/ io' = Append(io, "recv_err") /\ resp' = resp /\ pc' = "done"
          /\ outcome' = Err("Failed to receive response")
       \/ io' = Append(io, "recv_timeout") /\ resp' = resp /\ pc' = "done"
          /\ outcome' = Err("Failed to receive response")
    /\ UNCHANGED <<config, packet, hdr, offset, qi, ai, records, trace>>
    /\ UNCHANGED <<nameVars, rdataVars, cliVars, moreVars>>

\* QueryReadHeader with a fault: a response whose ID is not the query's, or
\* whose QR bit is clear, is refused
QueryReadHeaderChecksId ==
    /\ pc = "received"
    /\ IF Len(resp) < 12
       THEN /\ pc' = "done"
            /\ outcome' = Err("Response too short")
            /\ UNCHANGED <<hdr, offset>>
       ELSE IF Take(resp, 2) # <<171, 205>> \/ At(resp, 2) < 128
       THEN /\ pc' = "done"
            /\ outcome' = Err("Response does not match the query")
            /\ UNCHANGED <<hdr, offset>>
       ELSE LET flags == ReadU16(resp, 2) IN
            /\ hdr' = [flags |-> flags,
                       rcode |-> flags % 16,
                       truncated |-> Bit(flags, 9),
                       recursion_available |-> Bit(flags, 7),
                       authenticated_data |-> Bit(flags, 5),
                       ancount |-> ReadU16(resp, 6),
                       qdcount |-> ReadU16(resp, 4)]
            /\ offset' = 12
            /\ pc' = "questions"
            /\ outcome' = outcome
    /\ UNCHANGED <<config, packet, io, resp, qi, ai, records, trace>>
    /\ UNCHANGED <<nameVars, rdataVars, cliVars, moreVars>>

\* if len < 12 { return Err(..) }; the flags, ancount, qdcount; offset = 12
QueryReadHeader ==
    /\ pc = "received"
    /\ IF Len(resp) < 12
       THEN /\ pc' = "done"
            /\ outcome' = Err("Response too short")
            /\ UNCHANGED <<hdr, offset>>
       ELSE LET flags == ReadU16(resp, 2) IN
            /\ hdr' = [flags |-> flags,
                       rcode |-> flags % 16,
                       truncated |-> Bit(flags, 9),
                       recursion_available |-> Bit(flags, 7),
                       authenticated_data |-> Bit(flags, 5),
                       ancount |-> ReadU16(resp, 6),
                       qdcount |-> ReadU16(resp, 4)]
            /\ offset' = 12
            /\ pc' = "questions"
            /\ outcome' = outcome
    /\ UNCHANGED <<config, packet, io, resp, qi, ai, records, trace>>
    /\ UNCHANGED <<nameVars, rdataVars, cliVars, moreVars>>

\* one turn of for _ in 0..qdcount { parse_name(resp, &mut offset); offset += 4 },
\* or the loop's end
QuerySkipQuestion ==
    /\ pc = "questions"
    /\ IF qi >= hdr.qdcount
       THEN pc' = "answers" /\ UNCHANGED <<offset, qi, outcome>>
       ELSE LET n == ParseName(resp, offset) IN
            IF n.hang
            THEN pc' = "hang" /\ outcome' = [kind |-> "Hang"] /\ UNCHANGED <<offset, qi>>
            ELSE pc' = pc /\ offset' = n.offset + 4 /\ qi' = qi + 1 /\ outcome' = outcome
    /\ UNCHANGED <<config, packet, io, resp, hdr, ai, records, trace>>
    /\ UNCHANGED <<nameVars, rdataVars, cliVars, moreVars>>

\* one turn of for _ in 0..ancount { .. }: a break, a record pushed, or the
\* loop's end; a panic or a pointer cycle inside ends the call there
QueryAnswer ==
    /\ pc = "answers"
    /\ IF ai >= hdr.ancount \/ offset >= Len(resp)
       THEN pc' = "return" /\ UNCHANGED <<offset, ai, records, trace, outcome>>
       ELSE LET n == ParseName(resp, offset) IN
            IF n.hang
            THEN pc' = "hang" /\ outcome' = [kind |-> "Hang"]
                 /\ UNCHANGED <<offset, ai, records, trace>>
            ELSE IF n.offset + 10 > Len(resp)
            THEN pc' = "return" /\ offset' = n.offset
                 /\ UNCHANGED <<ai, records, trace, outcome>>
            ELSE LET rtype == ReadU16(resp, n.offset)
                     ttl == ReadU32(resp, n.offset + 4)
                     rdlength == ReadU16(resp, n.offset + 8)
                     rd == ParseRdata(resp, n.offset + 10, rdlength, rtype)
                 IN  IF rd.kind = "panic"
                     THEN pc' = "panic" /\ outcome' = [kind |-> "Panic"]
                          /\ UNCHANGED <<offset, ai, records, trace>>
                     ELSE IF rd.kind = "hang"
                     THEN pc' = "hang" /\ outcome' = [kind |-> "Hang"]
                          /\ UNCHANGED <<offset, ai, records, trace>>
                     ELSE /\ records' = PushRecord(records,
                                           [name |-> n.name, record_type |-> RtypeName(rtype),
                                            ttl |-> ttl, value |-> rd.value])
                          /\ trace' = Append(trace, [at |-> offset, fixed |-> n.offset,
                                                     rdstart |-> n.offset + 10,
                                                     rdend |-> n.offset + 10 + rdlength])
                          /\ offset' = rd.offset
                          /\ ai' = ai + 1
                          /\ pc' = pc
                          /\ outcome' = outcome
    /\ UNCHANGED <<config, packet, io, resp, hdr, qi>>
    /\ UNCHANGED <<nameVars, rdataVars, cliVars, moreVars>>

\* Ok(DnsResult { .. }); query_time_ms, a wall-clock reading, is left out
QueryReturn ==
    /\ pc = "return"
    /\ pc' = "done"
    /\ outcome' = [kind |-> "Ok",
                   domain |-> config.domain,
                   resolver |-> config.resolver,
                   record_type |-> config.record_type,
                   records |-> records,
                   response_code |-> RcodeStr(hdr.rcode),
                   truncated |-> hdr.truncated,
                   recursion_available |-> hdr.recursion_available,
                   authenticated_data |-> hdr.authenticated_data]
    /\ UNCHANGED <<config, packet, io, resp, hdr, offset, qi, ai, records, trace>>
    /\ UNCHANGED <<nameVars, rdataVars, cliVars, moreVars>>

\* The decoding of a received datagram as one function of the config and the
\* datagram: what QueryReadHeader, QuerySkipQuestion, QueryAnswer and
\* QueryReturn compute step by step.

\* for _ in 0..qdcount { parse_name(resp, &mut offset); offset += 4 }
RECURSIVE SkipQuestions(_, _, _)
SkipQuestions(buf, off, k) ==
    IF k = 0
    THEN [hang |-> FALSE, offset |-> off]
    ELSE LET n == ParseName(buf, off) IN
         IF n.hang
         THEN [hang |-> TRUE, offset |-> off]
         ELSE SkipQuestions(buf, n.offset + 4, k - 1)

\* for _ in 0..ancount { .. }, k turns left
RECURSIVE DecodeAnswers(_, _, _, _)
DecodeAnswers(buf, off, k, recs) ==
    IF k = 0 \/ off >= Len(buf)
    THEN [kind |-> "Ok", records |-> recs]
    ELSE LET n == ParseName(buf, off) IN
         IF n.hang
         THEN [kind |-> "Hang"]
         ELSE IF n.offset + 10 > Len(buf)
         THEN [kind |-> "Ok", records |-> recs]
         ELSE LET rtype == ReadU16(buf, n.offset)
                  ttl == ReadU32(buf, n.offset + 4)
                  rdlength == ReadU16(buf, n.offset + 8)
                  rd == ParseRdata(buf, n.offset + 10, rdlength, rtype)
              IN  IF rd.kind = "panic"
                  THEN [kind |-> "Panic"]
                  ELSE IF rd.kind = "hang"
                  THEN [kind |-> "Hang"]
                  ELSE DecodeAnswers(buf, rd.offset, k - 1,
                                     PushRecord(recs,
                                         [name |-> n.name, record_type |-> RtypeName(rtype),
                                          ttl |-> ttl, value |-> rd.value]))

\* query from "if len < 12" to its return
DecodeResponse(cfg, buf) ==
    IF Len(buf) < 12
    THEN Err("Response too short")
    ELSE LET flags == ReadU16(buf, 2)
             q == SkipQuestions(buf, 12, ReadU16(buf, 4))
         IN  IF q.hang
             THEN [kind |-> "Hang"]
             ELSE LET a == DecodeAnswers(buf, q.offset, ReadU16(buf, 6), <<>>) IN
                  IF a.kind # "Ok"
                  THEN a
                  ELSE [kind |-> "Ok",
                        domain |-> cfg.domain,
                        resolver |-> cfg.resolver,
                        record_type |-> cfg.record_type,
                        records |-> a.records,
                        response_code |-> RcodeStr(flags % 16),
                        truncated |-> Bit(flags, 9),
                        recursion_available |-> Bit(flags, 7),
                        authenticated_data |-> Bit(flags, 5)]

Configs ==
    { [domain |-> <<97>>, record_type |-> "A", resolver |-> r] : r \in {"8.8.8.8", "dns.google"} }

NameOff ==
    /\ nmode = "off" /\ ndom = <<>> /\ nbuf = <<>> /\ noff = 0
    /\ pn = ParseNameEntry(0)
    /\ nhist = [encoded |-> FALSE, first |-> -1, target |-> -1, prefix |-> <<>>,
                chained |-> FALSE, term |-> -1]
    /\ nres = [name |-> <<>>, labels |-> <<>>, offset |-> 0]

RdataOff ==
    /\ rin = [buf |-> <<>>, offset |-> 0, rdlength |-> 0, rtype |-> 0]
    /\ rout = [kind |-> "off"]

NoResult == [kind |-> "none"]

CliOff == cli = [at |-> "off", domain |-> <<>>, record_type |-> <<>>, resolver |-> "",
                 result |-> NoResult]

TwoOff == calls = <<>> /\ udp = [owner |-> <<>>, queue |-> <<>>, arrived |-> <<>>]

SubnetOff == cidr = <<>> /\ subnet = [kind |-> "off"]

ProbeOff == probe = [at |-> "off"]

ScanOff == scan = [at |-> "off"] /\ tasks = <<>>

MoreOff == TwoOff /\ SubnetOff /\ ProbeOff /\ ScanOff

QueryOff ==
    /\ pc = "off" /\ config = [domain |-> <<>>, record_type |-> "A", resolver |-> ""]
    /\ packet = <<>> /\ io = <<>> /\ resp = <<>> /\ hdr = NoHdr /\ offset = 0
    /\ qi = 0 /\ ai = 0 /\ records = <<>> /\ trace = <<>> /\ outcome = NoOutcome

Init ==
    /\ pc = "start"
    /\ config \in Configs
    /\ packet = <<>> /\ io = <<>> /\ resp = <<>> /\ hdr = NoHdr /\ offset = 0
    /\ qi = 0 /\ ai = 0 /\ records = <<>> /\ trace = <<>> /\ outcome = NoOutcome
    /\ NameOff
    /\ RdataOff
    /\ CliOff
    /\ MoreOff

Next ==
    \/ QueryStart
    \/ QueryBind
    \/ QuerySetTimeout
    \/ QuerySend
    \/ QueryRecv
    \/ QueryReadHeader
    \/ QuerySkipQuestion
    \/ QueryAnswer
    \/ QueryReturn

Spec == Init /\ [][Next]_vars

---------------------------------------------------------------------------
(* query on responses that vary in their flags word and in their question *)
(* section                                                                 *)

\* at most this many questions in a datagram, and QDCOUNT at most this
MaxQuestions == 2

\* every value of the 16-bit flags word
AllFlags == 0..65535

\* "a" IN A; a question whose name is a pointer to offset 12; "b" followed by
\* a pointer to offset 12
QuestionSet ==
    { <<1, 97, 0, 0, 1, 0, 1>>,
      <<192, 12, 0, 1, 0, 1>>,
      <<1, 98, 192, 12, 0, 1, 0, 1>> }

QuestionSections == UNION { [1..k -> QuestionSet] : k \in 0..MaxQuestions }

\* QR, RD, RA with RCODE 0 (NOERROR) and with RCODE 3 (NXDOMAIN)
QuestionFlags == {33152, 33155}

\* nothing, or one A record named by a pointer to offset 12
AnswerTails == { <<>>, AnswerBytes(<<192, 12>>, 1, 300, 4, <<10, 0, 0, 1>>) }

\* A bare header with every flags word; and, under two flags words, a header
\* whose QDCOUNT and ANCOUNT need not match what follows it, then up to
\* MaxQuestions questions, then the tail.
HeaderDatagrams ==
    { RespHeader(f, 0, 0) : f \in AllFlags }
    \cup { RespHeader(f, qd, an) \o Flatten(qs) \o t :
              f \in QuestionFlags, qd \in 0..MaxQuestions, an \in {0, 1},
              qs \in QuestionSections, t \in AnswerTails }

QueryRecvHeader == QueryRecvIn(HeaderDatagrams)

NextHeader ==
    \/ QueryStart
    \/ QueryBind
    \/ QuerySetTimeout
    \/ QuerySend
    \/ QueryRecvHeader
    \/ QueryReadHeader
    \/ QuerySkipQuestion
    \/ QueryAnswer
    \/ QueryReturn

SpecHeader == Init /\ [][NextHeader]_vars

---------------------------------------------------------------------------
(* query on responses of one answer record, of every TYPE and RDLENGTH and *)
(* RDATA within bounds                                                     *)

\* the longest RDATA in such a response
MaxAnswerRdata == 3

\* the TYPEs with a decoder of their own, and TYPEs without: 0, 99, 257
\* (whose low byte is that of A) and 65535
AnswerTypes == {1, 28, 2, 5, 12, 15, 16, 6, 0, 99, 257, 65535}

\* a zero byte, small bytes, a byte with a letter for each hex digit, 0xC0
AnswerRdataBytes == {0, 1, 171, 192}

AnswerRdatas == UNION { [1..k -> AnswerRdataBytes] : k \in 0..MaxAnswerRdata }

\* One answer named by the root at offset 12, its fixed fields at 13 and its
\* RDATA at 23; RDLENGTH may say more or less than the RDATA that follows.
\* And a datagram of 3 bytes.
AnswerDatagrams ==
    { RespHeader(33152, 0, 1) \o AnswerBytes(<<0>>, t, 300, l, rd) :
        t \in AnswerTypes, l \in 0..(MaxAnswerRdata + 1), rd \in AnswerRdatas }
    \cup { <<171, 205, 129>> }

QueryRecvAnswer == QueryRecvIn(AnswerDatagrams)

NextAnswer ==
    \/ QueryStart
    \/ QueryBind
    \/ QuerySetTimeout
    \/ QuerySend
    \/ QueryRecvAnswer
    \/ QueryReadHeader
    \/ QuerySkipQuestion
    \/ QueryAnswer
    \/ QueryReturn

SpecAnswer == Init /\ [][NextAnswer]_vars

---------------------------------------------------------------------------
(* parse_name alone, one loop iteration per step: on a buffer and an offset *)
(* drawn from bounded sets, or on the message build_query makes of a       *)
(* domain, at offset 12                                                    *)

\* the longest buffer given to parse_name directly
MaxNameBuf == 5

\* the longest domain string drawn letter by letter
MaxDomainLen == 4

\* terminator, label lengths and pointer targets 0..3, the pointer octet 0xC0
NameBytes == {0, 1, 2, 3, 192}

NameBufs == UNION { [1..k -> NameBytes] : k \in 0..MaxNameBuf }

\* every string of 'a' and '.' up to MaxDomainLen, and single labels of 63,
\* 64, 192 and 256 bytes
Domains ==
    UNION { [1..k -> {97, DOT}] : k \in 0..MaxDomainLen }
    \cup { Rep(97, n) : n \in {63, 64, 192, 256} }

NoHist == [encoded |-> FALSE, first |-> -1, target |-> -1, prefix |-> <<>>,
           chained |-> FALSE, term |-> -1]

InitName ==
    /\ QueryOff
    /\ RdataOff
    /\ CliOff
    /\ MoreOff
    /\ \/ nmode = "domain" /\ ndom \in Domains /\ nbuf = <<>> /\ noff = 0
       \/ nmode = "ready" /\ ndom = <<>> /\ nbuf \in NameBufs /\ noff \in 0..Len(nbuf)
    /\ pn = ParseNameEntry(0)
    /\ nhist = NoHist
    /\ nres = [name |-> <<>>, labels |-> <<>>, offset |-> 0]

\* let packet = build_query(domain, qtype), then the name is decoded at 12
NameEncode ==
    /\ nmode = "domain"
    /\ nbuf' = BuildQuery(ndom, ToQtype("A"))
    /\ noff' = 12
    /\ nmode' = "ready"
    /\ nhist' = [nhist EXCEPT !.encoded = TRUE]
    /\ UNCHANGED <<ndom, pn, nres>>
    /\ UNCHANGED <<queryVars, rdataVars, cliVars, moreVars>>

\* parse_name is entered: its locals are set up
NameCall ==
    /\ nmode = "ready"
    /\ pn' = ParseNameEntry(noff)
    /\ nmode' = "loop"
    /\ UNCHANGED <<ndom, nbuf, noff, nhist, nres>>
    /\ UNCHANGED <<queryVars, rdataVars, cliVars, moreVars>>

\* nhist (whose field encoded tells that nbuf came from build_query) notes
\* what the iteration at pn.pos meets: the first pointer (its position, its
\* target and the labels read before it), whether a later pointer followed,
\* and the zero octet the loop broke on.
Noted ==
    LET inside == pn.pos < Len(nbuf)
        ptr == inside /\ IsPointer(At(nbuf, pn.pos))
    IN  IF ptr /\ nhist.first = -1
        THEN [nhist EXCEPT !.first = pn.pos,
                           !.target = PointerTarget(nbuf, pn.pos),
                           !.prefix = pn.labels]
        ELSE IF ptr
        THEN [nhist EXCEPT !.chained = TRUE]
        ELSE IF inside /\ At(nbuf, pn.pos) = 0
        THEN [nhist EXCEPT !.term = pn.pos]
        ELSE nhist

\* The head of an iteration: the loop breaks (pos at or past the end, or a
\* zero octet), or the octet read is a pointer or a label length, which the
\* rest of the iteration (NameOctet) handles.
NameHead ==
    /\ nmode = "loop"
    /\ ~pn.done
    /\ IF pn.pos >= Len(nbuf) \/ At(nbuf, pn.pos) = 0
       THEN pn' = ParseNameIter(nbuf, pn) /\ nhist' = Noted /\ nmode' = nmode
       ELSE nmode' = "octet" /\ UNCHANGED <<pn, nhist>>
    /\ UNCHANGED <<ndom, nbuf, noff, nres>>
    /\ UNCHANGED <<queryVars, rdataVars, cliVars, moreVars>>

\* The rest of an iteration: the pointer is followed, or the label is pushed
\* and skipped.  A loop that never ends may push labels for ever; the model
\* keeps at most Len(nbuf) of them, which a loop that ends never exceeds (it
\* is at most once at each position).
NameOctet ==
    /\ nmode = "octet"
    /\ LET st == ParseNameIter(nbuf, pn)
       IN  pn' = IF Len(st.labels) > Len(nbuf) THEN [st EXCEPT !.labels = pn.labels] ELSE st
    /\ nhist' = Noted
    /\ nmode' = "loop"
    /\ UNCHANGED <<ndom, nbuf, noff, nres>>
    /\ UNCHANGED <<queryVars, rdataVars, cliVars, moreVars>>

\* the loop is left: *offset is set and the joined labels are returned
NameReturn ==
    /\ nmode = "loop"
    /\ pn.done
    /\ nres' = ParseNameExit(pn)
    /\ nmode' = "returned"
    /\ UNCHANGED <<ndom, nbuf, noff, pn, nhist>>
    /\ UNCHANGED <<queryVars, rdataVars, cliVars, moreVars>>

NextName ==
    \/ NameEncode
    \/ NameCall
    \/ NameHead
    \/ NameOctet
    \/ NameReturn

SpecName == InitName /\ [][NextName]_vars

\* a thread that runs parse_name keeps running it: no step is put off for ever
SpecNameFair == SpecName /\ WF_vars(NextName)

---------------------------------------------------------------------------
(* parse_rdata alone, on arguments drawn from bounded sets *)

\* the longest buffer given to parse_rdata
MaxRdataBuf == 4

RdataBytes == {0, 1, 192}

RdataBufs == UNION { [1..k -> RdataBytes] : k \in 0..MaxRdataBuf }

\* the eight TYPEs with an arm of their own, and one without
RdataTypes == {1, 28, 2, 5, 12, 15, 16, 6, 99}

\* 16-bit groups of an IPv6 address: zero, one digit, two, three and four
\* digits, with letters, with a zero low byte
Groups == {0, 1, 171, 3512, 8193, 2560, 65535}

\* 2001:db8::1
Ipv6Example == <<32, 1, 13, 184, 0, 0, 0, 0, 0, 0, 0, 0, 0, 0, 0, 1>>

\* addresses that vary in their first and last group, and addresses of eight
\* equal groups
Ipv6Bufs ==
    { U16Be(g) \o Rep(0, 12) \o U16Be(h) : g \in Groups, h \in Groups }
    \cup { Flatten(Rep(U16Be(g), 8)) : g \in Groups }
    \cup { Ipv6Example, <<9, 9>> \o Ipv6Example }

\* SOA "a" "b" serial 300, then refresh 7, retry 8, expire 9, minimum 10
SoaExample ==
    <<1, 97, 0, 1, 98, 0, 0, 0, 1, 44, 0, 0, 0, 7, 0, 0, 0, 8, 0, 0, 0, 9, 0, 0, 0, 10>>

\* the names "ns" at offset 0 and "x" at offset 4; then at offset 8 an SOA
\* whose MNAME is a pointer to offset 0, whose RNAME is "b" and a pointer to
\* offset 4, serial 0x80000001, then refresh 7, retry 8, expire 9, minimum 10
SoaPointerExample ==
    <<2, 110, 115, 0, 1, 120, 0, 0,
      192, 0, 1, 98, 192, 4, 128, 0, 0, 1,
      0, 0, 0, 7, 0, 0, 0, 8, 0, 0, 0, 9, 0, 0, 0, 10>>

\* 192.168.1.1, alone and after two other bytes; 10.0.0.255; MX 10 "mail"; MX 65535 "a.bc"; MX 256 with a
\* pointer to the "mail" at offset 2; TXT "hello" "world"; TXT "hi" and a
\* character-string that says 9 bytes where 2 follow; TXT "" "a" "";
\* 01 02 03 04; AB CD EF; 00 FF; the two SOA examples
RdataExamples ==
    { <<192, 168, 1, 1>>,
      <<9, 9, 192, 168, 1, 1>>,
      <<10, 0, 0, 255>>,
      <<0, 10, 4, 109, 97, 105, 108, 0>>,
      <<255, 255, 1, 97, 2, 98, 99, 0>>,
      <<0, 10, 4, 109, 97, 105, 108, 0, 1, 0, 192, 2>>,
      <<5, 104, 101, 108, 108, 111, 5, 119, 111, 114, 108, 100>>,
      <<2, 104, 105, 9, 120, 121>>,
      <<0, 1, 97, 0>>,
      <<1, 2, 3, 4>>,
      <<171, 205, 239>>,
      <<0, 255>>,
      SoaExample,
      SoaPointerExample }

\* a call on an example: the RDATA starts at offset 0, 2 or 8 and reaches to
\* the end of the example, or to one byte before or after it
ExampleCalls ==
    { [buf |-> b, offset |-> o, rdlength |-> l, rtype |-> t] :
        b \in Ipv6Bufs \cup RdataExamples, o \in {0, 2, 8}, l \in 0..35, t \in RdataTypes }

InitRdata ==
    /\ QueryOff
    /\ NameOff
    /\ CliOff
    /\ MoreOff
    /\ \/ /\ rin \in { [buf |-> b, offset |-> o, rdlength |-> l, rtype |-> t] :
                          b \in RdataBufs, o \in 0..MaxRdataBuf, l \in 0..(MaxRdataBuf + 1),
                          t \in RdataTypes }
          /\ rin.offset <= Len(rin.buf)
       \/ /\ rin \in ExampleCalls
          /\ rin.offset <= Len(rin.buf)
          /\ rin.rdlength \in {Len(rin.buf) - rin.offset - 1, Len(rin.buf) - rin.offset,
                                Len(rin.buf) - rin.offset + 1}
    /\ rout = [kind |-> "none"]

\* let value = parse_rdata(buf, &mut offset, rdlength, rtype)
RdataCall ==
    /\ rout.kind = "none"
    /\ rout' = ParseRdata(rin.buf, rin.offset, rin.rdlength, rin.rtype)
    /\ UNCHANGED rin
    /\ UNCHANGED <<queryVars, nameVars, cliVars, moreVars>>

NextRdata == RdataCall

SpecRdata == InitRdata /\ [][NextRdata]_vars

---------------------------------------------------------------------------
(* The CLI's dns command: the type text is parsed, and query is called with *)
(* the config made of the arguments                                         *)

\* the longest type text drawn letter by letter
MaxTypeLen == 2

\* 'A', 'a', 'N', 'S', 's', long s, sharp s, space
TypeAlphabet == {65, 97, 78, 83, 115, LONG_S, SHARP_S, 32}

\* the ways of writing a capital letter: itself, its small letter and, for
\* 'S', the long s
WaysToWrite(c) == {c, c + 32} \cup (IF c = 83 THEN {LONG_S} ELSE {})

RECURSIVE Spellings(_)
Spellings(name) ==
    IF Len(name) = 0 THEN {<<>>}
    ELSE { <<c>> \o t : c \in WaysToWrite(name[1]), t \in Spellings(Tail(name)) }

\* "SRV", "ANY", "invalid", "AAAAA", "A A", "TXTT", "CNAM", "ssoa" with a
\* sharp s, "PTR "
OtherTexts ==
    { <<83, 82, 86>>, <<65, 78, 89>>, <<105, 110, 118, 97, 108, 105, 100>>,
      <<65, 65, 65, 65, 65>>, <<65, 32, 65>>, <<84, 88, 84, 84>>, <<67, 78, 65, 77>>,
      <<SHARP_S, 111, 97>>, <<80, 84, 82, 32>> }

\* every text up to MaxTypeLen over the alphabet, every spelling of the eight
\* kinds in capitals and small letters, and the texts above
TypeTexts ==
    UNION { [1..k -> TypeAlphabet] : k \in 0..MaxTypeLen }
    \cup UNION { Spellings(TypeText(rt)) : rt \in RecordTypes }
    \cup OtherTexts

\* the question "a" IN A answered with one A record; the same question
\* answered NXDOMAIN without record; a datagram of 3 bytes
CliDatagrams ==
    { RespHeader(33152, 1, 1) \o QuestionBytes
          \o AnswerBytes(<<192, 12>>, 1, 300, 4, <<10, 0, 0, 1>>),
      RespHeader(33155, 1, 0) \o QuestionBytes,
      <<171, 205, 129>> }

InitCli ==
    /\ QueryOff
    /\ NameOff
    /\ RdataOff
    /\ MoreOff
    /\ cli \in { [at |-> "dns", domain |-> <<97>>, record_type |-> t, resolver |-> "8.8.8.8",
                  result |-> NoResult] : t \in TypeTexts }

\* let rt = from_str_loose(&record_type).ok_or_else(..)?; let config = ..;
\* then query(&config) is entered
CliDns ==
    /\ cli.at = "dns"
    /\ LET rt == FromStrLoose(cli.record_type) IN
       IF rt = "None"
       THEN /\ cli' = [cli EXCEPT !.at = "error",
                                  !.result = [kind |-> "Err", msg |-> "Unknown record type",
                                              arg |-> cli.record_type]]
            /\ UNCHANGED <<pc, config>>
       ELSE /\ cli' = [cli EXCEPT !.at = "query"]
            /\ config' = [domain |-> cli.domain, record_type |-> rt, resolver |-> cli.resolver]
            /\ pc' = "start"
    /\ UNCHANGED <<packet, io, resp, hdr, offset, qi, ai, records, trace, outcome>>
    /\ UNCHANGED <<nameVars, rdataVars, moreVars>>

\* query(&config).map(|r| format_output(&r, format)): what query returned is
\* what the command returns, the result formatted
CliDnsReturn ==
    /\ cli.at = "query"
    /\ pc = "done"
    /\ cli' = [cli EXCEPT !.at = "done", !.result = [kind |-> outcome.kind]]
    /\ UNCHANGED queryVars
    /\ UNCHANGED <<nameVars, rdataVars, moreVars>>

QueryRecvCli == QueryRecvIn(CliDatagrams)

NextCli ==
    \/ CliDns
    \/ QueryStart
    \/ QueryBind
    \/ QuerySetTimeout
    \/ QuerySend
    \/ QueryRecvCli
    \/ QueryReadHeader
    \/ QuerySkipQuestion
    \/ QueryAnswer
    \/ QueryReturn
    \/ CliDnsReturn

SpecCli == InitCli /\ [][NextCli]_vars

---------------------------------------------------------------------------
(* Two calls of query running side by side on one host: each step of a call *)
(* is one action, and the host's UDP ports and the datagrams arriving at   *)
(* them are the only things the calls could meet in                        *)

\* the ephemeral ports the host has to give, 1..MaxPorts
MaxPorts == 2

\* datagrams a socket's receive queue holds
MaxQueue == 1

Ports == 1..MaxPorts

Callers == 1..2

\* call 1 asks for "a", call 2 for "b"
TwoConfigs(i) ==
    { [domain |-> <<96 + i>>, record_type |-> "A", resolver |-> r] :
        r \in {"8.8.8.8", "dns.google"} }

\* what arrives at a port: the answers of the CLI harness
TwoDatagrams == CliDatagrams

InitTwo ==
    /\ QueryOff
    /\ NameOff
    /\ RdataOff
    /\ CliOff
    /\ SubnetOff /\ ProbeOff /\ ScanOff
    /\ calls \in [Callers -> { [pc |-> "start", config |-> c, packet |-> <<>>, io |-> <<>>,
                                port |-> 0, resp |-> <<>>, outcome |-> NoOutcome] :
                                c \in TwoConfigs(1) \cup TwoConfigs(2) }]
    /\ \A i \in Callers : calls[i].config \in TwoConfigs(i)
    /\ udp = [owner |-> [p \in Ports |-> 0], queue |-> [p \in Ports |-> <<>>],
              arrived |-> [i \in Callers |-> {}], both |-> FALSE]

\* the socket of call i goes out of scope: its port is free again and what
\* was queued there is gone
Drop(u, i) ==
    [u EXCEPT !.owner = [p \in Ports |-> IF u.owner[p] = i THEN 0 ELSE u.owner[p]],
              !.queue = [p \in Ports |-> IF u.owner[p] = i THEN <<>> ELSE u.queue[p]]]

\* RecvPort with a fault: every call receives from port 1
RecvPortShared(i) == 1

\* the port of the socket call i receives from: the one it bound
RecvPort(i) == calls[i].port

\* BindPorts with a fault: the host hands out ports that are taken
BindPortsTaken == Ports

\* the ports bind("0.0.0.0:0") may be given: the free ones
BindPorts == { p \in Ports : udp.owner[p] = 0 }

\* let qtype = ..; let packet = build_query(..); let resolver_addr = ..parse()..?
TwoStart(i) ==
    /\ calls[i].pc = "start"
    /\ calls' = [calls EXCEPT
                   ![i].packet = BuildQuery(calls[i].config.domain,
                                            ToQtype(calls[i].config.record_type)),
                   ![i].pc = IF ParsesAsSocketAddr(calls[i].config.resolver)
                             THEN "bind" ELSE "done",
                   ![i].outcome = IF ParsesAsSocketAddr(calls[i].config.resolver)
                                  THEN NoOutcome ELSE Err("Invalid resolver address")]
    /\ UNCHANGED udp
    /\ UNCHANGED <<queryVars, nameVars, rdataVars, cliVars, subnetVars, probeVars, scanVars>>

\* UdpSocket::bind("0.0.0.0:0")..?
TwoBind(i) ==
    /\ calls[i].pc = "bind"
    /\ \/ \E p \in BindPorts :
            /\ calls' = [calls EXCEPT ![i].io = Append(@, "bind_ok"), ![i].port = p,
                                      ![i].pc = "set_timeout"]
            /\ udp' = [udp EXCEPT !.owner[p] = i,
                                  !.both = @ \/ \E q \in Ports : udp.owner[q] \notin {0, i}]
       \/ /\ calls' = [calls EXCEPT ![i].io = Append(@, "bind_err"), ![i].pc = "done",
                                    ![i].outcome = Err("Failed to bind UDP socket")]
          /\ UNCHANGED udp
    /\ UNCHANGED <<queryVars, nameVars, rdataVars, cliVars, subnetVars, probeVars, scanVars>>

\* socket.set_read_timeout(Some(config.timeout))..?
TwoSetTimeout(i) ==
    /\ calls[i].pc = "set_timeout"
    /\ \/ /\ calls' = [calls EXCEPT ![i].io = Append(@, "set_timeout_ok"), ![i].pc = "send"]
          /\ UNCHANGED udp
       \/ /\ calls' = [calls EXCEPT ![i].io = Append(@, "set_timeout_err"), ![i].pc = "done",
                                    ![i].outcome = Err("Failed to set timeout")]
          /\ udp' = Drop(udp, i)
    /\ UNCHANGED <<queryVars, nameVars, rdataVars, cliVars, subnetVars, probeVars, scanVars>>

\* socket.send_to(&packet, resolver_addr)..?
TwoSend(i) ==
    /\ calls[i].pc = "send"
    /\ \/ /\ calls' = [calls EXCEPT ![i].io = Append(@, "send_ok"), ![i].pc = "recv"]
          /\ UNCHANGED udp
       \/ /\ calls' = [calls EXCEPT ![i].io = Append(@, "send_err"), ![i].pc = "done",
                                    ![i].outcome = Err("Failed to send query")]
          /\ udp' = Drop(udp, i)
    /\ UNCHANGED <<queryVars, nameVars, rdataVars, cliVars, subnetVars, probeVars, scanVars>>

\* a datagram arrives at a bound port and is queued at its socket
TwoArrive ==
    /\ \E p \in Ports, d \in TwoDatagrams :
         /\ udp.owner[p] # 0
         /\ Len(udp.queue[p]) < MaxQueue
         /\ udp' = [udp EXCEPT !.queue[p] = Append(@, d),
                               !.arrived[udp.owner[p]] = @ \cup {d}]
    /\ UNCHANGED calls
    /\ UNCHANGED <<queryVars, nameVars, rdataVars, cliVars, subnetVars, probeVars, scanVars>>

\* let (len, _) = socket.recv_from(&mut resp_buf)..?: the first datagram queued
\* at the socket, or the receive fails or times out
TwoRecv(i) ==
    /\ calls[i].pc = "recv"
    /\ \/ /\ Len(udp.queue[RecvPort(i)]) > 0
          /\ calls' = [calls EXCEPT ![i].io = Append(@, "recv_ok"),
                                    ![i].resp = Head(udp.queue[RecvPort(i)]),
                                    ![i].pc = "received"]
          /\ udp' = [udp EXCEPT !.queue[RecvPort(i)] = Tail(@)]
       \/ /\ \E e \in {"recv_err", "recv_timeout"} :
               calls' = [calls EXCEPT ![i].io = Append(@, e), ![i].pc = "done",
                                      ![i].outcome = Err("Failed to receive response")]
          /\ udp' = Drop(udp, i)
    /\ UNCHANGED <<queryVars, nameVars, rdataVars, cliVars, subnetVars, probeVars, scanVars>>

\* the rest of query, from "if len < 12" to its return; the socket is dropped
\* when the call returns or unwinds
TwoDecode(i) ==
    /\ calls[i].pc = "received"
    /\ LET r == DecodeResponse(calls[i].config, calls[i].resp) IN
       /\ calls' = [calls EXCEPT ![i].outcome = r,
                                 ![i].pc = CASE r.kind = "Hang" -> "hang"
                                             [] r.kind = "Panic" -> "panic"
                                             [] OTHER -> "done"]
       /\ udp' = IF r.kind = "Hang" THEN udp ELSE Drop(udp, i)
    /\ UNCHANGED <<queryVars, nameVars, rdataVars, cliVars, subnetVars, probeVars, scanVars>>

NextTwo ==
    \/ \E i \in Callers : TwoStart(i)
    \/ \E i \in Callers : TwoBind(i)
    \/ \E i \in Callers : TwoSetTimeout(i)
    \/ \E i \in Callers : TwoSend(i)
    \/ TwoArrive
    \/ \E i \in Callers : TwoRecv(i)
    \/ \E i \in Callers : TwoDecode(i)

SpecTwo == InitTwo /\ [][NextTwo]_vars

---------------------------------------------------------------------------
(* scan.rs: parse_subnet alone, on CIDR texts drawn from bounded sets.  An  *)
(* Ipv4Addr and a u32 are kept as U32 halves.                               *)

SLASH == 47
PLUS  == 43

IsDigit(c) == c >= 48 /\ c <= 57

\* cidr.split_once('/'): the text before the first '/' and the text after it
SplitOnce(s, c) ==
    IF \E i \in 1..Len(s) : s[i] = c
    THEN LET i == CHOOSE i \in 1..Len(s) : s[i] = c /\ \A j \in 1..(i - 1) : s[j] # c
         IN  [found |-> TRUE, left |-> SubSeq(s, 1, i - 1), right |-> SubSeq(s, i + 1, Len(s))]
    ELSE [found |-> FALSE, left |-> <<>>, right |-> <<>>]

\* the value of a string of at most three decimal digits
OctetValue(s) ==
    CASE Len(s) = 1 -> s[1] - 48
      [] Len(s) = 2 -> (s[1] - 48) * 10 + (s[2] - 48)
      [] OTHER -> (s[1] - 48) * 100 + (s[2] - 48) * 10 + (s[3] - 48)

\* one octet of a dotted quad as std reads it: one to three digits, no
\* leading zero before another digit, at most 255
IsOctetText(s) ==
    /\ Len(s) >= 1 /\ Len(s) <= 3
    /\ \A i \in 1..Len(s) : IsDigit(s[i])
    /\ (Len(s) > 1 => s[1] # 48)
    /\ OctetValue(s) <= 255

\* ip_str.parse::<Ipv4Addr>() and u32::from(ip)
ParseIpv4(s) ==
    LET parts == Split(s, DOT) IN
    IF Len(parts) = 4 /\ \A k \in 1..4 : IsOctetText(parts[k])
    THEN [ok |-> TRUE,
          val |-> U32(OctetValue(parts[1]) * 256 + OctetValue(parts[2]),
                      OctetValue(parts[3]) * 256 + OctetValue(parts[4]))]
    ELSE [ok |-> FALSE, val |-> U32(0, 0)]

\* the digits of a u32, most significant first, with checked_mul and
\* checked_add: a value past u32::MAX is an error
RECURSIVE ParseDigitsU32(_, _)
ParseDigitsU32(s, acc) ==
    IF Len(s) = 0
    THEN [ok |-> TRUE, val |-> acc]
    ELSE LET lo == acc.lo * 10 + (s[1] - 48)
             hi == acc.hi * 10 + (lo \div 65536)
         IN  IF hi > 65535
             THEN [ok |-> FALSE, val |-> U32(0, 0)]
             ELSE ParseDigitsU32(Tail(s), U32(hi, lo % 65536))

\* prefix_str.parse::<u32>(): an optional '+', then one digit or more
ParseU32(s) ==
    LET digits == IF Len(s) > 0 /\ s[1] = PLUS THEN Tail(s) ELSE s IN
    IF Len(digits) = 0 \/ \E i \in 1..Len(digits) : ~IsDigit(digits[i])
    THEN [ok |-> FALSE, val |-> U32(0, 0)]
    ELSE ParseDigitsU32(digits, U32(0, 0))

\* a & b on 16-bit halves
RECURSIVE BitAnd16(_, _)
BitAnd16(a, b) ==
    IF a = 0 \/ b = 0 THEN 0
    ELSE (a % 2) * (b % 2) + 2 * BitAnd16(a \div 2, b \div 2)

\* a & b on u32
AndU32(a, b) == U32(BitAnd16(a.hi, b.hi), BitAnd16(a.lo, b.lo))

\* v << k on u32, for k in 0..31: the bits shifted past bit 31 are lost
ShlU32(v, k) ==
    IF k >= 16
    THEN U32(((v.lo % (2 ^ (32 - k))) * (2 ^ (k - 16))) % 65536, 0)
    ELSE U32(((v.hi % (2 ^ (16 - k))) * (2 ^ k) + ((v.lo * (2 ^ k)) \div 65536)) % 65536,
             (v.lo * (2 ^ k)) % 65536)

\* network + i on u32, for i up to 65536
AddU32(v, i) ==
    U32((v.hi + ((v.lo + i) \div 65536)) % 65536, (v.lo + i) % 65536)

U32_MAX == U32(65535, 65535)

\* HostRange with a fault: the first and last address are skipped for /31 and
\* /32 too
HostRangeSkipsAlways(prefix, host_count) == <<1, IF host_count > 1 THEN host_count - 1 ELSE 1>>

\* let (start, end) = if prefix < 31 { (1, host_count - 1) } else { (0, host_count) }
HostRange(prefix, host_count) ==
    IF prefix < 31 THEN <<1, host_count - 1>> ELSE <<0, host_count>>

\* parse_subnet(cidr).  Past the two range checks the prefix is 16..32, so
\* host_count = 1u32 << (32 - prefix) is at most 65536 and a plain integer.
ParseSubnet(text) ==
    LET parts == SplitOnce(text, SLASH)
        ip == ParseIpv4(parts.left)
        pre == ParseU32(parts.right)
    IN  IF ~parts.found THEN Err("Invalid CIDR")
        ELSE IF ~ip.ok THEN Err("Invalid IP")
        ELSE IF ~pre.ok THEN Err("Invalid prefix")
        ELSE IF pre.val.hi > 0 \/ pre.val.lo > 32 THEN Err("Invalid prefix length")
        ELSE IF pre.val.lo < 16 THEN Err("Prefix too large (< /16). Maximum 65536 hosts.")
        ELSE LET prefix == pre.val.lo
                 mask == IF prefix = 32 THEN U32_MAX ELSE ShlU32(U32_MAX, 32 - prefix)
                 network == AndU32(ip.val, mask)
                 host_count == 2 ^ (32 - prefix)
                 range == HostRange(prefix, host_count)
             IN  [kind |-> "Ok",
                  addrs |-> [k \in 1..(range[2] - range[1]) |->
                                AddU32(network, range[1] + k - 1)]]

\* prefix lengths written in the inputs: 0..MaxPrefix
MaxPrefix == 34

\* a.b.c.d as text
Ipv4Text(o) == Dec(o[1]) \o <<DOT>> \o Dec(o[2]) \o <<DOT>> \o Dec(o[3]) \o <<DOT>> \o Dec(o[4])

SubnetAddresses ==
    { <<0, 0, 0, 0>>, <<10, 0, 0, 0>>, <<192, 168, 1, 77>>, <<255, 255, 255, 255>>,
      <<172, 16, 255, 1>>, <<128, 0, 128, 129>> }

\* a.b.c.d/N, and for one address N written with a sign and with a leading
\* zero, which the u32 parser reads as N
SubnetTexts ==
    { [text |-> Ipv4Text(o) \o <<SLASH>> \o Dec(n), wf |-> TRUE, octets |-> o, prefix |-> n] :
        o \in SubnetAddresses, n \in 0..MaxPrefix }
    \cup
    { [text |-> Ipv4Text(<<192, 168, 1, 77>>) \o <<SLASH>> \o s \o Dec(n), wf |-> TRUE,
       octets |-> <<192, 168, 1, 77>>, prefix |-> n] :
        s \in {<<PLUS>>, <<48>>}, n \in 0..MaxPrefix }

\* texts that are no a.b.c.d/N: "192.168.1.0", "", "/24", "invalid.ip/24",
\* "192.168.1.0/abc", "192.168.1.0/-1", "192.168.1.0/", "192.168.1.0/+",
\* "256.256.256.256/24", "192.168.1/24", "192.168.1.0.0/24", "192.168..0/24",
\* "192.168.1.0/24/1", " 192.168.1.0/24", "192.168.1.0/24 ",
\* "192.168.1.0/4294967296", "192.168.01.0/24", "192.168.1.0/2 4"
MalformedTexts ==
    LET ip == Ipv4Text(<<192, 168, 1, 0>>)
        bad == { ip, <<>>, <<SLASH, 50, 52>>,
                 <<105, 110, 118, 97, 108, 105, 100, DOT, 105, 112, SLASH, 50, 52>>,
                 ip \o <<SLASH, 97, 98, 99>>, ip \o <<SLASH, 45, 49>>, ip \o <<SLASH>>,
                 ip \o <<SLASH, PLUS>>,
                 Ipv4Text(<<256, 256, 256, 256>>) \o <<SLASH, 50, 52>>,
                 Dec(192) \o <<DOT>> \o Dec(168) \o <<DOT>> \o Dec(1) \o <<SLASH, 50, 52>>,
                 ip \o <<DOT, 48, SLASH, 50, 52>>,
                 Dec(192) \o <<DOT>> \o Dec(168) \o <<DOT, DOT, 48, SLASH, 50, 52>>,
                 ip \o <<SLASH, 50, 52, SLASH, 49>>,
                 <<SPACE>> \o ip \o <<SLASH, 50, 52>>, ip \o <<SLASH, 50, 52, SPACE>>,
                 ip \o <<SLASH>> \o <<52, 50, 57, 52, 57, 54, 55, 50, 57, 54>>,
                 Dec(192) \o <<DOT>> \o Dec(168) \o <<DOT, 48, 49, DOT, 48, SLASH, 50, 52>>,
                 ip \o <<SLASH, 50, SPACE, 52>> }
    IN  { [text |-> t, wf |-> FALSE, octets |-> <<0, 0, 0, 0>>, prefix |-> 0] : t \in bad }

InitSubnet ==
    /\ QueryOff
    /\ NameOff
    /\ RdataOff
    /\ CliOff
    /\ TwoOff /\ ProbeOff /\ ScanOff
    /\ cidr \in SubnetTexts \cup MalformedTexts
    /\ subnet = [kind |-> "none"]

\* let addrs = parse_subnet(cidr)
SubnetCall ==
    /\ subnet.kind = "none"
    /\ subnet' = ParseSubnet(cidr.text)
    /\ UNCHANGED cidr
    /\ UNCHANGED <<queryVars, nameVars, rdataVars, cliVars, twoVars, probeVars, scanVars>>

NextSubnet == SubnetCall

SpecSubnet == InitSubnet /\ [][NextSubnet]_vars

---------------------------------------------------------------------------
(* scan.rs: probe_host alone, one connect attempt per step.  What          *)
(* timeout(to, TcpStream::connect(addr)).await gives is drawn from its      *)
(* three outcomes: Ok(Ok(stream)), Ok(Err(e)) and Err(Elapsed).             *)

\* ports given to probe_host: at most this many
MaxProbePorts == 3

ConnectOutcomes == {"connected", "refused", "elapsed"}

\* Ok(Ok(_)) => .., _ => ..: scan_port's match (port.rs)
IsOkOk(r) == r = "connected"

\* .is_ok() on the value of timeout(..).await: true of Ok(Ok(stream)) and of
\* Ok(Err(e)), false of Err(Elapsed)
IsOk(r) == r \in {"connected", "refused"}

ProbePortLists == UNION { [1..k -> {22, 80}] : k \in 0..MaxProbePorts }

InitProbe ==
    /\ QueryOff
    /\ NameOff
    /\ RdataOff
    /\ CliOff
    /\ TwoOff /\ SubnetOff /\ ScanOff
    /\ probe \in { [at |-> "loop", ports |-> ps, i |-> 0, connects |-> <<>>,
                    open_ports |-> <<>>, result |-> [kind |-> "none"]] :
                    ps \in ProbePortLists }

\* one turn of for &port in ports { if timeout(..).await.is_ok() { push } }
ProbeConnect ==
    /\ probe.at = "loop"
    /\ probe.i < Len(probe.ports)
    /\ \E r \in ConnectOutcomes :
         probe' = [probe EXCEPT !.i = @ + 1,
                                !.connects = Append(@, r),
                                !.open_ports = IF IsOk(r)
                                               THEN Append(@, probe.ports[probe.i + 1])
                                               ELSE @]
    /\ UNCHANGED <<queryVars, nameVars, rdataVars, cliVars, twoVars, subnetVars, scanVars>>

\* if open_ports.is_empty() { None } else { Some((ip, open_ports, rtt)) }
ProbeReturn ==
    /\ probe.at = "loop"
    /\ probe.i >= Len(probe.ports)
    /\ probe' = [probe EXCEPT !.at = "done",
                              !.result = IF Len(probe.open_ports) = 0
                                         THEN [kind |-> "None"]
                                         ELSE [kind |-> "Some",
                                               open_ports |-> probe.open_ports]]
    /\ UNCHANGED <<queryVars, nameVars, rdataVars, cliVars, twoVars, subnetVars, scanVars>>

NextProbe ==
    \/ ProbeConnect
    \/ ProbeReturn

SpecProbe == InitProbe /\ [][NextProbe]_vars

---------------------------------------------------------------------------
(* query on responses that vary in their transaction ID and in their QR bit *)

\* values of each of the two ID bytes
IdBytes == {0, 171, 205, 255}

\* the datagram d with ID bytes a, b and with QR bit q, as far as it has
\* those bytes
SetIdQr(d, a, b, q) ==
    [k \in 1..Len(d) |->
        CASE k = 1 -> a
          [] k = 2 -> b
          [] k = 3 -> (d[3] % 128) + 128 * q
          [] OTHER -> d[k]]

IdDatagrams ==
    { SetIdQr(d, a, b, q) : d \in CliDatagrams, a \in IdBytes, b \in IdBytes, q \in {0, 1} }

QueryRecvId == QueryRecvIn(IdDatagrams)

NextId ==
    \/ QueryStart
    \/ QueryBind
    \/ QuerySetTimeout
    \/ QuerySend
    \/ QueryRecvId
    \/ QueryReadHeader
    \/ QuerySkipQuestion
    \/ QueryAnswer
    \/ QueryReturn

SpecId == Init /\ [][NextId]_vars

---------------------------------------------------------------------------
(* port.rs scan and scan.rs scan: the calling task acquires a permit and    *)
(* spawns one probe task per port (port scan) or per address (LAN scan),    *)
(* then awaits the tasks in spawn order and builds its result.  A probe     *)
(* task probes, drops its permit and finishes.  Each await of the code is   *)
(* one step.                                                                *)

\* config.parallel is 0..MaxParallel
MaxParallel == 2

\* a port scan is given at most this many ports
MaxScanPorts == 3

\* v as dotted quad (Ipv4Addr's to_string)
Ipv4ToString(v) ==
    Dec(v.hi \div 256) \o <<DOT>> \o Dec(v.hi % 256) \o <<DOT>>
        \o Dec(v.lo \div 256) \o <<DOT>> \o Dec(v.lo % 256)

\* a.cmp(&b) == Less on strings: the first differing character decides, and a
\* proper prefix is less
StrLess(s, t) ==
    \E k \in 1..Len(t) :
        /\ \A j \in 1..(k - 1) : j <= Len(s) /\ s[j] = t[j]
        /\ (k > Len(s) \/ (k <= Len(s) /\ s[k] < t[k]))

\* a stable sort of s, where less[j][i] tells whether s[j] orders before
\* s[i]: an element goes behind those less than it and those equal to it that
\* stood before it
StableSort(s, less) ==
    LET n == Len(s)
        pos(i) == 1 + Cardinality({ j \in 1..n : less[j][i] \/ (~less[i][j] /\ j < i) })
    IN  [k \in 1..n |-> s[CHOOSE i \in 1..n : pos(i) = k]]

\* |p| p.port as the sort key
PortLess(s) == [j \in 1..Len(s) |-> [i \in 1..Len(s) |-> s[j].port < s[i].port]]

\* |a, b| a.ip.cmp(&b.ip)
HostLess(s) == [j \in 1..Len(s) |-> [i \in 1..Len(s) |-> StrLess(s[j].ip, s[i].ip)]]

\* TakePermit with a fault: acquiring leaves the permit in the semaphore
TakePermitLeavesIt(n) == n

\* acquire_owned() completing: one permit fewer in the semaphore
TakePermit(n) == n - 1

ScanPortLists == UNION { [1..k -> {22, 80}] : k \in 0..MaxScanPorts }

\* "10.0.0.8/30" (hosts 10.0.0.9 and 10.0.0.10), "10.0.0.9/32", "10.0.0.0/8"
ScanSubnets ==
    { Ipv4Text(<<10, 0, 0, 8>>) \o <<SLASH>> \o Dec(30),
      Ipv4Text(<<10, 0, 0, 9>>) \o <<SLASH>> \o Dec(32),
      Ipv4Text(<<10, 0, 0, 0>>) \o <<SLASH>> \o Dec(8) }

ScanConfigs ==
    { [kind |-> "port", ports |-> ps, subnet |-> <<>>, parallel |-> n] :
        ps \in ScanPortLists, n \in 0..MaxParallel }
    \cup
    { [kind |-> "lan", ports |-> <<22, 80>>, subnet |-> t, parallel |-> n] :
        t \in ScanSubnets, n \in 0..MaxParallel }

InitScan ==
    /\ QueryOff
    /\ NameOff
    /\ RdataOff
    /\ CliOff
    /\ TwoOff /\ SubnetOff /\ ProbeOff
    /\ scan \in { [at |-> "start", config |-> c, items |-> <<>>, permits |-> 0, joined |-> 0,
                   found |-> <<>>, peak |-> 0, result |-> [kind |-> "none"]] :
                   c \in ScanConfigs }
    /\ tasks = <<>>

\* the tasks that hold a permit: spawned and not yet past drop(permit)
Holding == { j \in 1..Len(tasks) : tasks[j].st \in {"spawned", "probed"} }

\* port::scan: the target is resolved (or the call returns the error), the
\* semaphore is made; scan::scan: parse_subnet(&config.subnet)?, the semaphore
ScanStart ==
    /\ scan.at = "start"
    /\ IF scan.config.kind = "port"
       THEN \E resolved \in BOOLEAN :
              scan' = IF resolved
                      THEN [scan EXCEPT !.at = "spawn", !.items = scan.config.ports,
                                        !.permits = scan.config.parallel]
                      ELSE [scan EXCEPT !.at = "done", !.result = Err("Failed to resolve")]
       ELSE LET addrs == ParseSubnet(scan.config.subnet) IN
            scan' = IF addrs.kind = "Ok"
                    THEN [scan EXCEPT !.at = "spawn", !.items = addrs.addrs,
                                      !.permits = scan.config.parallel]
                    ELSE [scan EXCEPT !.at = "done", !.result = addrs]
    /\ UNCHANGED tasks
    /\ UNCHANGED <<queryVars, nameVars, rdataVars, cliVars, twoVars, subnetVars, probeVars>>

\* one turn of the spawn loop: sem.clone().acquire_owned().await completes when
\* the semaphore has a permit, and the task is spawned with it
ScanSpawn ==
    /\ scan.at = "spawn"
    /\ Len(tasks) < Len(scan.items)
    /\ scan.permits > 0
    /\ tasks' = Append(tasks, [item |-> scan.items[Len(tasks) + 1], st |-> "spawned",
                               open |-> FALSE, probes |-> 0])
    /\ scan' = [scan EXCEPT !.permits = TakePermit(@),
                            !.peak = IF Cardinality(Holding) + 1 > @
                                     THEN Cardinality(Holding) + 1 ELSE @]
    /\ UNCHANGED <<queryVars, nameVars, rdataVars, cliVars, twoVars, subnetVars, probeVars>>

\* the spawn loop is over
ScanSpawned ==
    /\ scan.at = "spawn"
    /\ Len(tasks) = Len(scan.items)
    /\ scan' = [scan EXCEPT !.at = "join"]
    /\ UNCHANGED tasks
    /\ UNCHANGED <<queryVars, nameVars, rdataVars, cliVars, twoVars, subnetVars, probeVars>>

\* let result = scan_port(addr, to).await, or probe_host(ip, &ports, to).await:
\* the connect attempts complete or time out, and the port is open or not (the
\* host has an open port or not)
TaskProbe(j) ==
    /\ tasks[j].st = "spawned"
    /\ \E open \in BOOLEAN :
         tasks' = [tasks EXCEPT ![j].st = "probed", ![j].open = open, ![j].probes = @ + 1]
    /\ UNCHANGED scan
    /\ UNCHANGED <<queryVars, nameVars, rdataVars, cliVars, twoVars, subnetVars, probeVars>>

\* drop(permit); the task returns its result
TaskFinish(j) ==
    /\ tasks[j].st = "probed"
    /\ tasks' = [tasks EXCEPT ![j].st = "finished"]
    /\ scan' = [scan EXCEPT !.permits = @ + 1]
    /\ UNCHANGED <<queryVars, nameVars, rdataVars, cliVars, twoVars, subnetVars, probeVars>>

\* one turn of for handle in handles { handle.await .. }: the next task in
\* spawn order has finished; an open port, or a host with an open port, is kept
ScanJoin ==
    /\ scan.at = "join"
    /\ scan.joined < Len(tasks)
    /\ tasks[scan.joined + 1].st = "finished"
    /\ scan' = [scan EXCEPT
                  !.joined = @ + 1,
                  !.found = IF tasks[scan.joined + 1].open
                            THEN Append(@, IF scan.config.kind = "port"
                                           THEN [port |-> tasks[scan.joined + 1].item]
                                           ELSE [ip |-> Ipv4ToString(tasks[scan.joined + 1].item)])
                            ELSE @]
    /\ UNCHANGED tasks
    /\ UNCHANGED <<queryVars, nameVars, rdataVars, cliVars, twoVars, subnetVars, probeVars>>

\* ports.sort_by_key(|p| p.port), the counts and Ok(ScanResult { .. });
\* hosts.sort_by(|a, b| a.ip.cmp(&b.ip)), the counts and Ok(LanScanResult { .. }).
\* The service names, round-trip times and scan time are left out.
ScanReturn ==
    /\ scan.at = "join"
    /\ scan.joined = Len(tasks)
    /\ scan' = [scan EXCEPT
                  !.at = "done",
                  !.result = IF scan.config.kind = "port"
                             THEN [kind |-> "Ok",
                                   ports |-> StableSort(scan.found, PortLess(scan.found)),
                                   open_count |-> Len(scan.found),
                                   closed_count |-> Len(scan.config.ports) - Len(scan.found)]
                             ELSE [kind |-> "Ok",
                                   hosts |-> StableSort(scan.found, HostLess(scan.found)),
                                   total_scanned |-> Len(scan.items),
                                   hosts_found |-> Len(scan.found)]]
    /\ UNCHANGED tasks
    /\ UNCHANGED <<queryVars, nameVars, rdataVars, cliVars, twoVars, subnetVars, probeVars>>

NextScan ==
    \/ ScanStart
    \/ ScanSpawn
    \/ ScanSpawned
    \/ \E j \in 1..Len(tasks) : TaskProbe(j)
    \/ \E j \in 1..Len(tasks) : TaskFinish(j)
    \/ ScanJoin
    \/ ScanReturn

SpecScan == InitScan /\ [][NextScan]_vars

\* the runtime runs a task that can take a step, and every connect attempt
\* completes or times out
SpecScanFair == SpecScan /\ WF_vars(NextScan)

---------------------------------------------------------------------------
(* Properties *)

\* C1: parse_name terminates on every buffer and every start offset, also
\* when the compression pointers of the name form a cycle: every call
\* eventually returns.
C1_ParseNameTerminates == <>(nmode = "returned")

\* C2: decoding a response cut at any byte offset reads no index at or past
\* the end of the buffer: no call of query ends in the panic of an
\* out-of-bounds index.
C2_NoOutOfBoundsRead == pc # "panic" /\ outcome.kind # "Panic"

\* C3: once a datagram has been received, query returns an error if and only
\* if the datagram is shorter than 12 bytes, and that error is "Response too
\* short"; every datagram of 12 bytes or more produces a DnsResult.
C3_ErrorIffShorterThanHeader ==
    (pc \in Ended /\ Len(io) > 0 /\ io[Len(io)] = "recv_ok")
        => IF Len(resp) < 12
           THEN outcome = Err("Response too short")
           ELSE outcome.kind = "Ok"

\* C4: whenever parse_rdata returns, the cursor is its value on entry plus
\* exactly RDLENGTH, whatever the TYPE and however many bytes the decoder of
\* that TYPE consumed.
C4_CursorAdvancesByRdlength ==
    rout.kind = "ok" => rout.offset = rin.offset + rin.rdlength

\* parse_rdata returned from the name arm after decoding a name that is a
\* pointer, two bytes long, in an RDATA that is longer
C4_Witness ==
    /\ rout.kind = "ok"
    /\ rin.rtype = 5
    /\ rin.offset < Len(rin.buf)
    /\ IsPointer(At(rin.buf, rin.offset))
    /\ rin.rdlength > 2
    /\ rin.offset + rin.rdlength <= Len(rin.buf)

\* a domain name in text form: labels of 1 to 63 bytes joined by dots, with
\* or without the final dot of an absolute name
IsDomainName(s) ==
    LET ls == Split(s, DOT)
    IN  \A k \in 1..Len(ls) :
            \/ Len(ls[k]) \in 1..63
            \/ k = Len(ls) /\ k > 1 /\ Len(ls[k]) = 0

\* C5: for every domain name of one label or more, decoding at offset 12 the
\* message build_query made of it returns the domain string itself and
\* leaves the cursor on the QTYPE field, 4 bytes before the end of the
\* message.
C5_EncodeDecodeRoundTrip ==
    (nmode = "returned" /\ nhist.encoded /\ IsDomainName(ndom))
        => nres.name = ndom /\ nres.offset = Len(nbuf) - 4

\* C6: a name reached through a compression pointer decodes to the labels
\* read before the first pointer followed by the labels that decoding the
\* pointer's target directly yields, pointers met at the target included.
C6_PointerDecodesAsTarget ==
    (nmode = "returned" /\ nhist.first # -1)
        => LET t == ParseName(nbuf, nhist.target)
           IN  /\ ~t.hang
               /\ nres.labels = nhist.prefix \o t.labels
               /\ nres.name = Join(nhist.prefix \o t.labels, DOT)

\* a name with a label before its first pointer, a second pointer behind the
\* first, and a label at the end of the chain
C6_Witness ==
    /\ nmode = "returned"
    /\ nhist.first # -1
    /\ nhist.chained
    /\ nhist.prefix # <<>>
    /\ Len(nres.labels) > Len(nhist.prefix)

\* C7 as stated: after parse_name returns, the cursor is right after the zero
\* terminator when no pointer was met, and two bytes past the first pointer
\* otherwise.
C7_CursorAfterTerminatorOrPointer ==
    nmode = "returned"
        => IF nhist.first # -1
           THEN nres.offset = nhist.first + 2
           ELSE nhist.term # -1 /\ nres.offset = nhist.term + 1

\* C7 amended: after parse_name returns, the cursor is two bytes past the
\* first pointer met, however many pointers followed; with no pointer met it
\* is right after the zero terminator when the loop ended on one, and
\* otherwise (the name ran off the end of the buffer) a position at or past
\* the end of the buffer and not before the start offset.
C7_CursorAmended ==
    nmode = "returned"
        => IF nhist.first # -1
           THEN nres.offset = nhist.first + 2
           ELSE IF nhist.term # -1
           THEN nres.offset = nhist.term + 1
           ELSE nres.offset >= Len(nbuf) /\ nres.offset >= noff

\* parse_name returned after following a second pointer behind the first
C7_Witness == nmode = "returned" /\ nhist.first # -1 /\ nhist.chained

IsSend(e) == e \in {"send_ok", "send_err"}
IsRecv(e) == e \in {"recv_ok", "recv_err", "recv_timeout"}
IsFailure(e) == e \in {"send_err", "recv_err", "recv_timeout"}

\* C8: one call of query sends at most once and receives at most once, the
\* send before the receive and the receive only after a send that succeeded;
\* a failed send, a failed receive or a receive timeout is the last socket
\* call of the call, which ends with an error.
C8_OneSendThenOneReceive ==
    /\ Cardinality({i \in DOMAIN io : IsSend(io[i])}) <= 1
    /\ Cardinality({i \in DOMAIN io : IsRecv(io[i])}) <= 1
    /\ \A i \in DOMAIN io : IsRecv(io[i]) => \E j \in 1..(i - 1) : io[j] = "send_ok"
    /\ \A i \in DOMAIN io :
         IsFailure(io[i]) => i = Len(io) /\ pc = "done" /\ outcome.kind = "Err"

\* the receive timed out after a successful send
C8_Witness == Len(io) > 0 /\ io[Len(io)] = "recv_timeout" /\ "send_ok" \in {io[i] : i \in DOMAIN io}

\* C9: every record query emits has its fixed fields and its whole RDATA
\* range [cursor, cursor + RDLENGTH) inside the received datagram.
C9_RecordsLieWithinDatagram ==
    \A i \in DOMAIN trace :
        trace[i].fixed + 10 <= Len(resp) /\ trace[i].rdend <= Len(resp)

C10_State ==
    /\ Len(records) <= hdr.ancount
    /\ Len(trace) = Len(records)
    /\ \A i \in DOMAIN records :
         /\ records[i].ttl = ReadU32(resp, trace[i].fixed + 4)
         /\ records[i].record_type = RtypeName(ReadU16(resp, trace[i].fixed))
    /\ \A i, j \in DOMAIN trace : i < j => trace[i].at < trace[j].at
    /\ (pc = "return" /\ Len(records) < hdr.ancount) => offset + 10 > Len(resp)

\* the buffer is exhausted at the head of an answer-loop iteration: the cursor
\* is at or past the end, or fewer than 10 bytes follow the record's name
Exhausted ==
    \/ offset >= Len(resp)
    \/ LET n == ParseName(resp, offset) IN ~n.hang /\ n.offset + 10 > Len(resp)

C10_Step ==
    /\ (pc = "answers" /\ ai < hdr.ancount /\ Exhausted)
          => (pc' = "return" /\ records' = records)
    /\ pc = "return"
          => (pc' = "done" /\ outcome'.kind = "Ok" /\ outcome'.records = records)

\* C10: the record list never holds more than ANCOUNT records and its records
\* are in the order of their answers in the datagram; when the buffer is
\* exhausted before ANCOUNT records are read the loop stops, and the records
\* decoded so far are returned as a success.
C10_RecordsBoundedOrderedPartial == [](C10_State) /\ [][C10_Step]_vars

\* query returned one record, whole in the datagram, of the two ANCOUNT announced
C10_Witness ==
    /\ pc = "done"
    /\ outcome.kind = "Ok"
    /\ hdr.ancount = 2
    /\ Len(outcome.records) = 1
    /\ trace[1].rdend <= Len(resp)

---------------------------------------------------------------------------

\* the ANCOUNT field of a datagram, from its bytes 6 and 7
AncountOf(d) == d[7] * 256 + d[8]

\* C11: for every received datagram of 12 bytes or more whose ANCOUNT is 0,
\* query returns a DnsResult whose record list is empty, whatever the RCODE;
\* with RCODE 3 its response_code is "NXDOMAIN".
C11_EmptyAnswerIsSuccess ==
    (pc \in Ended /\ Len(io) > 0 /\ io[Len(io)] = "recv_ok"
        /\ Len(resp) >= 12 /\ AncountOf(resp) = 0)
        => /\ outcome.kind = "Ok"
           /\ outcome.records = <<>>
           /\ (resp[4] % 16 = 3 => outcome.response_code = "NXDOMAIN")

\* Where the name that starts at pos ends on the wire: right after its zero
\* octet, or two bytes past its first pointer; -1 when the name is not well
\* formed (a label longer than 63 bytes or running off the buffer, a pointer
\* cut short, or a pointer that is not to a well-formed name starting before
\* the name that holds it).
RECURSIVE WireNameEnd(_, _, _)
WireNameEnd(buf, start, pos) ==
    IF pos >= Len(buf) THEN -1
    ELSE LET b == At(buf, pos) IN
         IF b = 0 THEN pos + 1
         ELSE IF b >= 192
         THEN IF pos + 1 >= Len(buf) THEN -1
              ELSE LET t == (b - 192) * 256 + At(buf, pos + 1)
                   IN  IF t < start /\ WireNameEnd(buf, t, t) # -1 THEN pos + 2 ELSE -1
         ELSE IF b <= 63 THEN WireNameEnd(buf, start, pos + 1 + b)
         ELSE -1

\* where k well-formed questions that start at pos end: each is a name and 4
\* bytes of QTYPE and QCLASS; -1 when one of them is not well formed
RECURSIVE QuestionsEnd(_, _, _)
QuestionsEnd(buf, pos, k) ==
    IF k = 0 THEN pos
    ELSE LET e == WireNameEnd(buf, pos, pos)
         IN  IF e = -1 \/ e + 4 > Len(buf) THEN -1
             ELSE QuestionsEnd(buf, e + 4, k - 1)

\* C12: when the datagram holds QDCOUNT well-formed questions after its
\* header, the skip loop has the cursor, after each question, 4 bytes past
\* the end of that question's name, and it leaves the cursor on the first
\* byte after the last question; with QDCOUNT 0 the cursor stays at 12.
C12_CursorAtAnswerSection ==
    (Len(resp) >= 12 /\ QuestionsEnd(resp, 12, hdr.qdcount) # -1)
        => /\ pc = "questions" => offset = QuestionsEnd(resp, 12, qi)
           /\ (pc = "answers" /\ ai = 0)
                 => qi = hdr.qdcount /\ offset = QuestionsEnd(resp, 12, hdr.qdcount)
           /\ ~(pc = "hang" /\ qi < hdr.qdcount)

\* two questions were skipped, the second one's name a label followed by a
\* pointer, and an answer follows them
C12_Witness ==
    /\ pc = "answers" /\ ai = 0
    /\ hdr.qdcount = 2
    /\ QuestionsEnd(resp, 12, 2) # -1
    /\ offset = 27
    /\ At(resp, 19) = 1 /\ At(resp, 21) = 192
    /\ offset < Len(resp)

\* C13: in the DnsResult, truncated, recursion_available and
\* authenticated_data are bits 9, 7 and 5 of the flags word (bytes 2 and 3 of
\* the datagram) and response_code is the name of its low 4 bits; the result
\* is made of these, the config and the records alone, so no other bit of the
\* flags word is in it.
C13_FlagsDecoded ==
    (pc = "done" /\ outcome.kind = "Ok")
        => LET hi == resp[3]
               lo == resp[4]
               r == lo % 16
           IN  /\ outcome.truncated = ((hi \div 2) % 2 = 1)
               /\ outcome.recursion_available = (lo >= 128)
               /\ outcome.authenticated_data = ((lo \div 32) % 2 = 1)
               /\ outcome.response_code =
                     (IF r = 0 THEN "NOERROR" ELSE IF r = 1 THEN "FORMERR"
                      ELSE IF r = 2 THEN "SERVFAIL" ELSE IF r = 3 THEN "NXDOMAIN"
                      ELSE IF r = 4 THEN "NOTIMP" ELSE IF r = 5 THEN "REFUSED"
                      ELSE "UNKNOWN")
               /\ outcome = [kind |-> "Ok",
                             domain |-> config.domain,
                             resolver |-> config.resolver,
                             record_type |-> config.record_type,
                             records |-> records,
                             response_code |-> outcome.response_code,
                             truncated |-> outcome.truncated,
                             recursion_available |-> outcome.recursion_available,
                             authenticated_data |-> outcome.authenticated_data]
               /\ (Len(resp) = 12 => outcome.records = <<>>)

\* a result from the flags word 0x4625: TC and AD set, RA clear, RCODE 5, and
\* the bits 14 and 10, which are in no field of the result, set
C13_Witness ==
    /\ pc = "done" /\ outcome.kind = "Ok"
    /\ resp[3] = 70 /\ resp[4] = 37
    /\ outcome.truncated /\ outcome.authenticated_data /\ ~outcome.recursion_available
    /\ outcome.response_code = "REFUSED"

\* the QTYPE field of a query message: the two bytes before its QCLASS
QtypeField(p) == At(p, Len(p) - 4) * 256 + At(p, Len(p) - 3)

\* C14: to_qtype gives A=1, NS=2, CNAME=5, SOA=6, PTR=12, MX=15, TXT=16,
\* AAAA=28: the code written in the query message of every kind is the one
\* of this table, no other kind has that code, and the codes of the eight
\* kinds are these eight numbers.
C14_QtypeInjective ==
    /\ packet # <<>>
          => LET k == config.record_type
                 code == QtypeField(packet)
             IN  /\ code = (IF k = "A" THEN 1 ELSE IF k = "NS" THEN 2
                            ELSE IF k = "CNAME" THEN 5 ELSE IF k = "SOA" THEN 6
                            ELSE IF k = "PTR" THEN 12 ELSE IF k = "MX" THEN 15
                            ELSE IF k = "TXT" THEN 16 ELSE 28)
                 /\ \A other \in RecordTypes \ {k} : ToQtype(other) # code
    /\ Cardinality(RecordTypes) = 8
    /\ {ToQtype(k) : k \in RecordTypes} = {1, 2, 5, 6, 12, 15, 16, 28}

\* the query message of an NS query has been built
C14_Witness == packet # <<>> /\ config.record_type = "NS" /\ QtypeField(packet) = 2

\* simple case folding: a capital letter to its small letter, the long s to
\* 's'; every other code point of the texts stays
Fold(c) == IF c >= 65 /\ c <= 90 THEN c + 32 ELSE IF c = LONG_S THEN 115 ELSE c

\* s and t are equal ignoring letter case
CaselessEq(s, t) == Len(s) = Len(t) /\ \A i \in 1..Len(s) : Fold(s[i]) = Fold(t[i])

\* C15: the dns command goes on to query with a record kind exactly when its
\* type text equals, ignoring letter case, the name of one of the eight
\* kinds, and that kind is the one it queries; for every other text it
\* returns an error and query is never entered: no message is built and no
\* socket call is made.
C15_UnknownTypeRejectedBeforeIo ==
    cli.at \in {"error", "query", "done"}
        => LET named == {rt \in RecordTypes : CaselessEq(cli.record_type, TypeText(rt))}
           IN  IF named = {}
               THEN /\ cli.at = "error" /\ cli.result.kind = "Err"
                    /\ pc = "off" /\ packet = <<>> /\ io = <<>>
               ELSE /\ cli.at # "error"
                    /\ named = {config.record_type}
                    /\ pc # "off"

\* the type text "SRV" was rejected
C15_Witness ==
    /\ cli.at = "error"
    /\ cli.record_type = <<83, 82, 86>>
    /\ cli.result = [kind |-> "Err", msg |-> "Unknown record type", arg |-> <<83, 82, 86>>]
    /\ io = <<>>

\* the bytes that the first k labels take in an encoded name: one length
\* octet and the label's bytes, each
RECURSIVE WireLen(_, _)
WireLen(ls, k) == IF k = 0 THEN 0 ELSE WireLen(ls, k - 1) + 1 + Len(ls[k])

\* C16: the message build_query returns is the header AB CD 01 00 00 01 00 00
\* 00 00 00 00, then for each label of the domain a length octet equal to
\* the label's length, which is no compression pointer (its two top bits are
\* not both set), and the label's bytes, then a zero octet, then the QTYPE
\* big-endian and the QCLASS 00 01; its length is 12 + the sum over the
\* labels of (1 + length) + 1 + 4.
C16_QueryMessageLayout ==
    nhist.encoded
        => LET ls == Split(ndom, DOT)
               n == Len(ls)
               at(k) == 12 + WireLen(ls, k - 1)
           IN  /\ Len(nbuf) = 12 + WireLen(ls, n) + 1 + 4
               /\ Take(nbuf, 12) = <<171, 205, 1, 0, 0, 1, 0, 0, 0, 0, 0, 0>>
               /\ \A k \in 1..n :
                     /\ At(nbuf, at(k)) = Len(ls[k])
                     /\ At(nbuf, at(k)) < 192
                     /\ Slice(nbuf, at(k) + 1, at(k) + 1 + Len(ls[k])) = ls[k]
               /\ At(nbuf, 12 + WireLen(ls, n)) = 0
               /\ Slice(nbuf, Len(nbuf) - 4, Len(nbuf)) = <<0, 1, 0, 1>>

\* the value of a hex digit written in small letters, -1 for any other character
HexDigitValue(c) ==
    IF c >= 48 /\ c <= 57 THEN c - 48 ELSE IF c >= 97 /\ c <= 102 THEN c - 87 ELSE -1

\* s is the dump of data: two small-letter hex digits for each byte, in order
IsHexDump(s, data) ==
    /\ Len(s) = 2 * Len(data)
    /\ \A i \in 1..Len(data) :
         /\ HexDigitValue(s[2 * i - 1]) # -1
         /\ HexDigitValue(s[2 * i]) # -1
         /\ 16 * HexDigitValue(s[2 * i - 1]) + HexDigitValue(s[2 * i]) = data[i]

\* TYPE and RDLENGTH for which parse_rdata has no decoder
NoDecoderFor(t, l) ==
    \/ t \notin {1, 2, 5, 6, 12, 15, 16, 28}
    \/ t = 1 /\ l # 4
    \/ t = 28 /\ l # 16

\* C18: for an answer whose TYPE is none of 1, 2, 5, 6, 12, 15, 16, 28, or is
\* 1 with RDLENGTH other than 4, or 28 with RDLENGTH other than 16, and
\* whose RDLENGTH bytes of RDATA are in the datagram, query does not fail:
\* it returns the record, and the record's value is the dump of exactly
\* those bytes, two small-letter hex digits each (2 * RDLENGTH characters).
\* The answer is the one at offset 12 with a root name: TYPE at 13,
\* RDLENGTH at 21, RDATA at 23.
C18_HexDumpForOtherTypes ==
    (pc \in Ended /\ Len(io) > 0 /\ io[Len(io)] = "recv_ok"
        /\ Len(resp) >= 23 /\ AncountOf(resp) = 1 /\ resp[5] * 256 + resp[6] = 0
        /\ At(resp, 12) = 0)
        => LET t == At(resp, 13) * 256 + At(resp, 14)
               l == At(resp, 21) * 256 + At(resp, 22)
           IN  (NoDecoderFor(t, l) /\ 23 + l <= Len(resp))
                   => /\ outcome.kind = "Ok"
                      /\ Len(outcome.records) = 1
                      /\ Len(outcome.records[1].value) = 2 * l
                      /\ IsHexDump(outcome.records[1].value, Slice(resp, 23, 23 + l))

\* query returned the record of a TYPE 257 answer with the RDATA 00 AB C0
C18_Witness ==
    /\ pc = "done" /\ outcome.kind = "Ok"
    /\ Len(resp) = 26
    /\ At(resp, 13) * 256 + At(resp, 14) = 257
    /\ Slice(resp, 21, 26) = <<0, 3, 0, 171, 192>>
    /\ Len(outcome.records) = 1
    /\ outcome.records[1].value = <<48, 48, 97, 98, 99, 48>>

\* the number a string of digits writes in the base, its digits being 0-9
\* and the small letters a-f
RECURSIVE DigitsValue(_, _)
DigitsValue(s, base) ==
    IF Len(s) = 0 THEN 0
    ELSE DigitsValue(SubSeq(s, 1, Len(s) - 1), base) * base + HexDigitValue(s[Len(s)])

\* s writes n in decimal, without leading zero
IsDecimal(s, n) ==
    /\ Len(s) >= 1
    /\ \A i \in 1..Len(s) : s[i] >= 48 /\ s[i] <= 57
    /\ (Len(s) > 1 => s[1] # 48)
    /\ DigitsValue(s, 10) = n

\* s writes n in hex with small letters, without leading zero
IsLowerHex(s, n) ==
    /\ Len(s) >= 1
    /\ \A i \in 1..Len(s) : HexDigitValue(s[i]) # -1
    /\ (Len(s) > 1 => s[1] # 48)
    /\ DigitsValue(s, 16) = n

\* the RDLENGTH bytes of RDATA are in the buffer
RdataInBuffer == rin.offset + rin.rdlength <= Len(rin.buf)

\* C17: with TYPE 1 and RDLENGTH 4 the value parse_rdata returns is four
\* decimal numbers joined by '.', the four RDATA bytes in order; with TYPE
\* 28 and RDLENGTH 16 (the 16 bytes in the buffer) it is eight numbers
\* joined by ':', each the small-letter hex without leading zeros of the
\* big-endian 16-bit group at its place, a run of zero groups written group
\* by group; the bytes of 2001:db8::1 give "2001:db8:0:0:0:0:0:1".
C17_AddressText ==
    rout.kind = "ok"
        => /\ (rin.rtype = 1 /\ rin.rdlength = 4)
                 => LET ps == Split(rout.value, DOT)
                    IN  /\ Len(ps) = 4
                        /\ \A i \in 1..4 : IsDecimal(ps[i], At(rin.buf, rin.offset + i - 1))
           /\ (rin.rtype = 28 /\ rin.rdlength = 16 /\ RdataInBuffer)
                 => LET ps == Split(rout.value, COLON)
                        group(i) == At(rin.buf, rin.offset + 2 * (i - 1)) * 256
                                    + At(rin.buf, rin.offset + 2 * (i - 1) + 1)
                    IN  /\ Len(ps) = 8
                        /\ \A i \in 1..8 : IsLowerHex(ps[i], group(i))
           /\ (rin.rtype = 28 /\ rin.rdlength = 16
                  /\ Slice(rin.buf, rin.offset, Len(rin.buf)) = Ipv6Example)
                 => rout.value = <<50, 48, 48, 49, COLON, 100, 98, 56, COLON, 48, COLON, 48,
                                   COLON, 48, COLON, 48, COLON, 48, COLON, 49>>

\* parse_rdata returned the text of 2001:db8::1 read at offset 2
C17_Witness ==
    /\ rout.kind = "ok"
    /\ rin.rtype = 28 /\ rin.rdlength = 16 /\ rin.offset = 2
    /\ Slice(rin.buf, 2, 18) = Ipv6Example
    /\ Len(rout.value) = 20

\* The character-strings of an RDATA, in order: each is a length octet and
\* that many bytes; one that says more bytes than the RDATA has left is
\* not among them, and nothing can follow it.
RECURSIVE CharStrings(_)
CharStrings(rd) ==
    IF Len(rd) = 0 THEN <<>>
    ELSE IF 1 + rd[1] <= Len(rd)
    THEN <<SubSeq(rd, 2, 1 + rd[1])>> \o CharStrings(SubSeq(rd, 2 + rd[1], Len(rd)))
    ELSE <<>>

\* C19: with TYPE 16 the value parse_rdata returns is the character-strings
\* that lie wholly within the RDLENGTH bytes of RDATA, in order, joined by
\* single spaces; a character-string that overruns the end of the RDATA is
\* left out, and the value is made of bytes before that end only (of the
\* RDATA bytes that are in the buffer, when the buffer ends first).
C19_TxtStringsJoined ==
    (rout.kind = "ok" /\ rin.rtype = 16)
        => LET end == rin.offset + rin.rdlength
               rd == Slice(rin.buf, rin.offset, IF end <= Len(rin.buf) THEN end ELSE Len(rin.buf))
               cs == CharStrings(rd)
           IN  rout.value = Join([i \in 1..Len(cs) |-> Utf8Lossy(cs[i])], SPACE)

\* parse_rdata returned "hi" for an RDATA of 6 bytes in which "hi" is
\* followed by a character-string that says 9 bytes where 2 are left
C19_Witness ==
    /\ rout.kind = "ok" /\ rin.rtype = 16
    /\ rin.buf = <<2, 104, 105, 9, 120, 121>> /\ rin.offset = 0 /\ rin.rdlength = 6
    /\ rout.value = <<104, 105>>

\* C20: with TYPE 15 and an RDATA that holds the two preference bytes, the
\* value parse_rdata returns is the preference, the big-endian number of the
\* first two RDATA bytes written in decimal, then one space, then the name
\* that parse_name decodes at RDATA offset 2, compression pointers followed;
\* the bytes 00 0A 04 'm' 'a' 'i' 'l' 00 give "10 mail".
C20_MxPreferenceAndExchange ==
    (rout.kind = "ok" /\ rin.rtype = 15 /\ rin.rdlength >= 2 /\ RdataInBuffer)
        => LET v == rout.value
               preference == At(rin.buf, rin.offset) * 256 + At(rin.buf, rin.offset + 1)
               exchange == ParseName(rin.buf, rin.offset + 2)
           IN  /\ \E k \in 1..Len(v) :
                     /\ v[k] = SPACE
                     /\ IsDecimal(SubSeq(v, 1, k - 1), preference)
                     /\ SubSeq(v, k + 1, Len(v)) = Join(exchange.labels, DOT)
               /\ Slice(rin.buf, rin.offset, Len(rin.buf)) = <<0, 10, 4, 109, 97, 105, 108, 0>>
                     => v = <<49, 48, SPACE, 109, 97, 105, 108>>

\* parse_rdata returned "256 mail" for the RDATA 01 00 C0 02 at offset 8,
\* whose exchange is a pointer to the name at offset 2
C20_Witness ==
    /\ rout.kind = "ok" /\ rin.rtype = 15
    /\ rin.offset = 8 /\ rin.rdlength = 4
    /\ Slice(rin.buf, 8, 12) = <<1, 0, 192, 2>>
    /\ rout.value = <<50, 53, 54, SPACE, 109, 97, 105, 108>>

\* the number that a string of decimal digits writes, as the two halves of a
\* u32; hi is 65536 or more when the number does not fit 32 bits
RECURSIVE DecimalHalves(_)
DecimalHalves(s) ==
    IF Len(s) = 0 THEN U32(0, 0)
    ELSE LET a == DecimalHalves(SubSeq(s, 1, Len(s) - 1))
             low == a.lo * 10 + (s[Len(s)] - 48)
             high == a.hi * 10 + (low \div 65536)
         IN  U32(IF high > 65535 THEN 65536 ELSE high, low % 65536)

\* s writes in decimal, without leading zero, the u32 of the halves hi and lo
IsDecimal32(s, hi, lo) ==
    /\ Len(s) >= 1
    /\ \A i \in 1..Len(s) : s[i] >= 48 /\ s[i] <= 57
    /\ (Len(s) > 1 => s[1] # 48)
    /\ DecimalHalves(s) = U32(hi, lo)

\* C21: with TYPE 6 the value parse_rdata returns is MNAME, a space, RNAME, a
\* space and the serial in decimal, and nothing after it: MNAME is the name
\* decoded at the start of the RDATA, RNAME the name decoded where MNAME's
\* decoding left the cursor (behind its terminator, or two bytes past its
\* first pointer), and the serial the big-endian 32-bit number of the four
\* bytes where RNAME's decoding left the cursor, those bytes being in the
\* buffer.
C21_SoaNamesAndSerial ==
    (rout.kind = "ok" /\ rin.rtype = 6)
        => LET mname == ParseName(rin.buf, rin.offset)
               rname == ParseName(rin.buf, mname.offset)
               at == rname.offset
               head == Join(mname.labels, DOT) \o <<SPACE>> \o Join(rname.labels, DOT) \o <<SPACE>>
               v == rout.value
           IN  at + 4 <= Len(rin.buf)
                 => /\ Len(v) > Len(head)
                    /\ SubSeq(v, 1, Len(head)) = head
                    /\ IsDecimal32(SubSeq(v, Len(head) + 1, Len(v)),
                                   At(rin.buf, at) * 256 + At(rin.buf, at + 1),
                                   At(rin.buf, at + 2) * 256 + At(rin.buf, at + 3))

\* parse_rdata returned "ns b.x 2147483649" for the SOA at offset 8 whose
\* two names end in pointers
C21_Witness ==
    /\ rout.kind = "ok" /\ rin.rtype = 6
    /\ rin.buf = SoaPointerExample /\ rin.offset = 8 /\ rin.rdlength = 26
    /\ rout.value = <<110, 115, SPACE, 98, DOT, 120, SPACE,
                       50, 49, 52, 55, 52, 56, 51, 54, 52, 57>>

---------------------------------------------------------------------------
\* what call i must have returned, told from its own config, its own socket
\* calls and the datagram it took
OwnOutcome(c) ==
    IF ~ParsesAsSocketAddr(c.config.resolver) THEN Err("Invalid resolver address")
    ELSE CASE c.io[Len(c.io)] = "bind_err" -> Err("Failed to bind UDP socket")
           [] c.io[Len(c.io)] = "set_timeout_err" -> Err("Failed to set timeout")
           [] c.io[Len(c.io)] = "send_err" -> Err("Failed to send query")
           [] c.io[Len(c.io)] \in {"recv_err", "recv_timeout"} ->
                  Err("Failed to receive response")
           [] OTHER -> DecodeResponse(c.config, c.resp)

\* C22: two calls of query running concurrently share no mutable state.  In
\* every interleaving of their steps, two calls that hold a socket hold
\* different ports; the datagram a call decodes is one that arrived at its own
\* port while it held it; and what a call returns is a function of its own
\* config, the results of its own socket calls and that datagram.
C22_CallsShareNothing ==
    /\ \A i, j \in Callers :
         (i # j /\ \E p \in Ports : udp.owner[p] = i) =>
             \A p \in Ports : udp.owner[p] = j => calls[i].port # p
    /\ \A i \in Callers :
         /\ (\E p \in Ports : udp.owner[p] = i) => udp.owner[calls[i].port] = i
         /\ calls[i].pc \in {"received", "done", "hang", "panic"} /\ calls[i].resp # <<>>
                => calls[i].resp \in udp.arrived[i]
         /\ calls[i].pc \in Ended => calls[i].outcome = OwnOutcome(calls[i])

\* Both calls held a socket at the same time, different datagrams arrived at
\* the two ports, and each call returned the decoding of its own.
C22_Witness ==
    /\ udp.both
    /\ calls[1].pc = "done" /\ calls[2].pc = "done"
    /\ calls[1].outcome.kind = "Ok" /\ calls[2].outcome.kind = "Ok"
    /\ calls[1].resp # calls[2].resp
    /\ calls[1].config # calls[2].config
    /\ calls[1].outcome.records # calls[2].outcome.records

---------------------------------------------------------------------------
\* the address a.b.c.d as U32 halves
OctetsU32(o) == U32(o[1] * 256 + o[2], o[3] * 256 + o[4])

\* the addresses the claim lists for a.b.c.d/N with 16 <= N <= 32, by
\* arithmetic on the low half: the network address is the address with its
\* low 32-N bits cleared, the broadcast address the network address plus
\* 2^(32-N) - 1
SubnetExpected(o, n) ==
    LET size == 2 ^ (32 - n)
        a == OctetsU32(o)
        netlo == a.lo - (a.lo % size)
    IN  CASE n = 32 -> <<a>>
          [] n = 31 -> <<U32(a.hi, netlo), U32(a.hi, netlo + 1)>>
          [] OTHER -> [k \in 1..(size - 2) |-> U32(a.hi, netlo + k)]

---------------------------------------------------------------------------
\* the ports, in order, whose connect gave a stream
RECURSIVE AcceptedPorts(_, _)
AcceptedPorts(ports, connects) ==
    IF Len(connects) = 0 THEN <<>>
    ELSE (IF connects[1] = "connected" THEN <<ports[1]>> ELSE <<>>)
             \o AcceptedPorts(Tail(ports), Tail(connects))

\* C24: probe_host lists a port in open_ports only when the connect to that
\* port completed successfully within the timeout: a connect that is refused
\* or times out does not count, so the ports listed are the ports whose
\* connect gave a stream, and a host none of whose ports accepted yields None.
C24_OpenMeansConnected ==
    /\ probe.open_ports = AcceptedPorts(probe.ports, probe.connects)
    /\ (probe.at = "done" /\ AcceptedPorts(probe.ports, probe.connects) = <<>>)
           => probe.result.kind = "None"

---------------------------------------------------------------------------
\* C25: query binds a socket and sends a datagram only after the resolver
\* string joined with ":53" has parsed as a socket address.  When the parse
\* fails the call returns an error with no socket call made; a bind is the
\* first socket call; a send is the third, after a bind and a setting of the
\* timeout that both succeeded, so nothing is sent when either fails.
C25_SocketOnlyAfterParse ==
    /\ pc = "start" => io = <<>>
    /\ ~ParsesAsSocketAddr(config.resolver)
           => /\ io = <<>>
              /\ pc \in Ended => outcome = Err("Invalid resolver address")
    /\ \A k \in 1..Len(io) :
         /\ io[k] \in {"bind_ok", "bind_err"} => k = 1
         /\ io[k] \in {"send_ok", "send_err"}
                => k = 3 /\ io[1] = "bind_ok" /\ io[2] = "set_timeout_ok"
    /\ (\E k \in 1..Len(io) : io[k] \in {"bind_err", "set_timeout_err"})
           => /\ \A k \in 1..Len(io) : io[k] \notin {"send_ok", "send_err"}
              /\ pc = "done" /\ outcome.kind = "Err"

\* the call was given the resolver "dns.google" and returned its error
\* without a socket call
C25_Witness ==
    /\ config.resolver = "dns.google"
    /\ pc = "done"
    /\ io = <<>>
    /\ outcome = Err("Invalid resolver address")

---------------------------------------------------------------------------
\* C27: build_query writes, for every label obtained by splitting the domain
\* on '.', one length octet equal to the label's byte length followed by
\* exactly that many bytes, and no length octet but the final terminator is
\* zero; for labels of any length and for domains with empty labels.
C27_LengthOctetPerLabel ==
    nhist.encoded
        => LET ls == Split(ndom, DOT)
               n == Len(ls)
               at(k) == 12 + WireLen(ls, k - 1)
           IN  /\ \A k \in 1..n :
                     /\ At(nbuf, at(k)) = Len(ls[k])
                     /\ At(nbuf, at(k)) # 0
                     /\ Slice(nbuf, at(k) + 1, at(k) + 1 + Len(ls[k])) = ls[k]
               /\ At(nbuf, 12 + WireLen(ls, n)) = 0

---------------------------------------------------------------------------
\* the characters of the string literals of rtype_name's match arms
StrChars(s) ==
    CASE s = "A" -> <<65>>
      [] s = "AAAA" -> <<65, 65, 65, 65>>
      [] s = "CNAME" -> <<67, 78, 65, 77, 69>>
      [] s = "NS" -> <<78, 83>>
      [] s = "MX" -> <<77, 88>>
      [] s = "TXT" -> <<84, 88, 84>>
      [] s = "SOA" -> <<83, 79, 65>>
      [] s = "PTR" -> <<80, 84, 82>>
      [] s = "UNKNOWN" -> <<85, 78, 75, 78, 79, 87, 78>>

\* C28: for each of the eight RecordType values r, an answer record whose
\* TYPE field equals r.to_qtype() is labelled with the characters of r's
\* display string, and a record of any other TYPE is labelled "UNKNOWN".
C28_RecordLabelledByType ==
    \A k \in 1..Len(records) :
        LET rtype == ReadU16(resp, trace[k].fixed) IN
        /\ \A r \in RecordTypes :
              ToQtype(r) = rtype => StrChars(records[k].record_type) = TypeText(r)
        /\ (\A r \in RecordTypes : ToQtype(r) # rtype)
              => StrChars(records[k].record_type) = StrChars("UNKNOWN")

\* a record of TYPE 12 was labelled "PTR"
C28_Witness ==
    /\ Len(records) = 1
    /\ ReadU16(resp, trace[1].fixed) = 12
    /\ StrChars(records[1].record_type) = TypeText("PTR")
    /\ pc = "done" /\ outcome.kind = "Ok"

---------------------------------------------------------------------------
\* C26: what query makes of a response does not depend on the response's
\* transaction ID nor on its QR bit: the outcome of a call that received a
\* datagram is the outcome the decoding gives for that datagram under every
\* other ID and either QR bit, and a response whose ID is not the query's
\* AB CD is decoded like any other.
C26_IdAndQrIgnored ==
    (pc \in Ended /\ Len(io) > 0 /\ io[Len(io)] = "recv_ok")
        => \A a \in IdBytes, b \in IdBytes, q \in {0, 1} :
              DecodeResponse(config, SetIdQr(resp, a, b, q)) = outcome

\* a datagram with ID 00 00 and QR 0 (a query, by its header) was decoded to
\* a result with its A record
C26_Witness ==
    /\ pc = "done"
    /\ Len(resp) >= 12
    /\ Take(resp, 2) = <<0, 0>>
    /\ At(resp, 2) < 128
    /\ outcome.kind = "Ok"
    /\ Len(outcome.records) = 1

---------------------------------------------------------------------------
\* C29: during port::scan and the LAN scan::scan the number of probe tasks
\* holding a semaphore permit never exceeds config.parallel; a task that has
\* finished its probe holds none (the permits in the semaphore and those held
\* add up to config.parallel); and every configured port or address is probed
\* exactly once: the tasks are the items in order, one each, none probes
\* twice, and when the scan returns its result every one has probed.
C29_PermitsBoundProbes ==
    scan.at \in {"spawn", "join", "done"} /\ scan.result.kind # "Err"
        => /\ Cardinality(Holding) <= scan.config.parallel
           /\ scan.permits + Cardinality(Holding) = scan.config.parallel
           /\ Len(tasks) <= Len(scan.items)
           /\ \A j \in 1..Len(tasks) :
                 /\ tasks[j].item = scan.items[j]
                 /\ tasks[j].probes = IF tasks[j].st = "spawned" THEN 0 ELSE 1
           /\ scan.at = "done"
                 => /\ Len(tasks) = Len(scan.items)
                    /\ \A j \in 1..Len(tasks) : tasks[j].st = "finished" /\ tasks[j].probes = 1

\* a port scan of three ports with two permits returned: two probes were in
\* flight at once, never three, and each port was probed once
C29_Witness ==
    /\ scan.at = "done" /\ scan.result.kind = "Ok"
    /\ scan.config.kind = "port"
    /\ Len(scan.items) = 3 /\ scan.config.parallel = 2
    /\ scan.peak = 2
    /\ \A j \in 1..3 : tasks[j].probes = 1

---------------------------------------------------------------------------
\* p is in ascending order of port
PortsAscend(p) == \A k \in 1..(Len(p) - 1) : p[k].port <= p[k + 1].port

\* C30: port::scan eventually returns for every configuration, provided every
\* connect attempt completes or times out, also for config.parallel = 0 with
\* a non-empty port list; and on return open_count + closed_count is the
\* number of configured ports and the reported ports are the open ones in
\* ascending order.
C30_PortScanReturns ==
    /\ scan.config.kind = "port" => <>(scan.at = "done")
    /\ [](scan.config.kind = "port" /\ scan.at = "done" /\ scan.result.kind = "Ok"
            => /\ scan.result.open_count + scan.result.closed_count = Len(scan.config.ports)
               /\ scan.result.open_count = Len(scan.result.ports)
               /\ PortsAscend(scan.result.ports)
               /\ \A n \in {22, 80} :
                     Cardinality({k \in 1..Len(scan.result.ports) : scan.result.ports[k].port = n})
                       = Cardinality({j \in 1..Len(tasks) : tasks[j].item = n /\ tasks[j].open}))

====
